---- MODULE Spec2Model ----
(***************************************************************************)
(* Verification model of the mcp-market tool discovery code:               *)
(*   src/mcp_tool_inspector.py          discovery engine, formatter        *)
(*   src/app.py                         report parser, cache, inspector    *)
(*   src/check_mcp_server/verify_mcp.py confidence classifier              *)
(*   src/check_mcp_server/filter_mcp_servers.py  batch verifier            *)
(*   src/check_mcp_server/main.py       batch scanner                      *)
(* Each component is a state machine of its own; a component's             *)
(* specification keeps the variables of the other components idle.         *)
(* Python's None is the string "None" for opaque values and the empty      *)
(* tuple for optional character sequences (NoneS / Some).                  *)
(***************************************************************************)
EXTENDS Integers, Sequences, FiniteSets, TLC

VARIABLES
    \* deduplicate_tools (mcp_tool_inspector.py)
    tools, seen, unique, dpos, dpc,
    \* verify_mcp_server (verify_mcp.py)
    vfiles, vpos, has_imports, has_decorators, mcp_files, vresult, vpc,
    \* format_results (mcp_tool_inspector.py) and parse_tools_output (app.py)
    rtools, output, parsed, rpc,
    \* _extract_balanced_segment (mcp_tool_inspector.py)
    source, start_index, open_char, close_char, index, depth, in_string, escape,
    xresult, xpc, xcase,
    \* filter_mcp_servers.py: the parallel batch of main
    repositories, future, results, yielded, servers_dir, bpc,
    \* check_mcp_server/main.py: the scan loop of main
    servers, spos, scan_results, outcomes, saved, spc,
    \* analyze_repository (mcp_tool_inspector.py)
    afiles, apos, collected, apc,
    \* analyze_typescript_source (mcp_tool_inspector.py)
    tsource, constants, ttools, tpos, tpc,
    \* MCPToolAnalyzer (mcp_tool_inspector.py)
    pmodule, ppos, docstrings, ptools, ppc,
    \* two runs of analyze_repository and deduplicate_tools over one tree
    etree, erun, epos, ecollected, eseen, eoutputs, epc,
    \* app.py: the tools cache and the calls of fetch_tools_for_repo
    tools_cache, calls, runs, utcnow,
    \* analyze_repository: the enumeration of the tree and its path filters
    wtree, wloop, wpos, wcollected, wpc,
    \* parse_repo_input (filter_mcp_servers.py)
    repo_input, repo_name, ripc,
    \* _split_top_level (mcp_tool_inspector.py)
    pieces, value, vindex, current, split_parts, depths, split_in_string, split_escape,
    splitpc,
    \* MCPToolAnalyzer._extract_tool_from_registry_call (mcp_tool_inspector.py)
    reg_call, reg_index, reg_name, reg_description, reg_info, regpc,
    \* filter_mcp_servers.py: runs of main over one output file
    output_json, run_args, existing_results, existing_repos, run_repositories, run_results,
    runs_done, runpc

dedupVars == <<tools, seen, unique, dpos, dpc>>
verifyVars == <<vfiles, vpos, has_imports, has_decorators, mcp_files, vresult, vpc>>
reportVars == <<rtools, output, parsed, rpc>>
extractVars == <<source, start_index, open_char, close_char, index, depth, in_string,
                 escape, xresult, xpc, xcase>>
batchVars == <<repositories, future, results, yielded, servers_dir, bpc>>
scannerVars == <<servers, spos, scan_results, outcomes, saved, spc>>
analyzeVars == <<afiles, apos, collected, apc>>
tsVars == <<tsource, constants, ttools, tpos, tpc>>
pyVars == <<pmodule, ppos, docstrings, ptools, ppc>>
engineVars == <<etree, erun, epos, ecollected, eseen, eoutputs, epc>>
cacheVars == <<tools_cache, calls, runs, utcnow>>
walkVars == <<wtree, wloop, wpos, wcollected, wpc>>
repoInputVars == <<repo_input, repo_name, ripc>>
splitVars == <<pieces, value, vindex, current, split_parts, depths, split_in_string, split_escape,
               splitpc>>
registryVars == <<reg_call, reg_index, reg_name, reg_description, reg_info, regpc>>
filterVars == <<output_json, run_args, existing_results, existing_repos, run_repositories,
                run_results, runs_done, runpc>>
vars == <<dedupVars, verifyVars, reportVars, extractVars, batchVars, scannerVars,
          analyzeVars, tsVars, pyVars, engineVars, cacheVars, walkVars, repoInputVars,
          splitVars, registryVars, filterVars>>

\* the variables of the other components
notDedup ==
    <<verifyVars, reportVars, extractVars, batchVars, scannerVars,
      analyzeVars, tsVars, pyVars, engineVars, cacheVars, walkVars,
      repoInputVars, splitVars, registryVars, filterVars>>
notVerify ==
    <<dedupVars, reportVars, extractVars, batchVars, scannerVars,
      analyzeVars, tsVars, pyVars, engineVars, cacheVars, walkVars,
      repoInputVars, splitVars, registryVars, filterVars>>
notReport ==
    <<dedupVars, verifyVars, extractVars, batchVars, scannerVars,
      analyzeVars, tsVars, pyVars, engineVars, cacheVars, walkVars,
      repoInputVars, splitVars, registryVars, filterVars>>
notExtract ==
    <<dedupVars, verifyVars, reportVars, batchVars, scannerVars,
      analyzeVars, tsVars, pyVars, engineVars, cacheVars, walkVars,
      repoInputVars, splitVars, registryVars, filterVars>>
notBatch ==
    <<dedupVars, verifyVars, reportVars, extractVars, scannerVars,
      analyzeVars, tsVars, pyVars, engineVars, cacheVars, walkVars,
      repoInputVars, splitVars, registryVars, filterVars>>
notScanner ==
    <<dedupVars, verifyVars, reportVars, extractVars, batchVars,
      analyzeVars, tsVars, pyVars, engineVars, cacheVars, walkVars,
      repoInputVars, splitVars, registryVars, filterVars>>
notRepoInput ==
    <<dedupVars, verifyVars, reportVars, extractVars, batchVars,
      scannerVars, analyzeVars, tsVars, pyVars, engineVars, cacheVars, walkVars, splitVars,
      registryVars, filterVars>>
notSplit ==
    <<dedupVars, verifyVars, reportVars, extractVars, batchVars,
      scannerVars, analyzeVars, tsVars, pyVars, engineVars, cacheVars, walkVars,
      repoInputVars, registryVars, filterVars>>
notRegistry ==
    <<dedupVars, verifyVars, reportVars, extractVars, batchVars,
      scannerVars, analyzeVars, tsVars, pyVars, engineVars, cacheVars, walkVars,
      repoInputVars, splitVars, filterVars>>
notFilter ==
    <<dedupVars, verifyVars, reportVars, extractVars, batchVars,
      scannerVars, analyzeVars, tsVars, pyVars, engineVars, cacheVars, walkVars,
      repoInputVars, splitVars, registryVars>>
notWalk ==
    <<dedupVars, verifyVars, reportVars, extractVars, batchVars,
      scannerVars, analyzeVars, tsVars, pyVars, engineVars, cacheVars,
      repoInputVars, splitVars, registryVars, filterVars>>
notCache ==
    <<dedupVars, verifyVars, reportVars, extractVars, batchVars,
      scannerVars, analyzeVars, tsVars, pyVars, engineVars, walkVars,
      repoInputVars, splitVars, registryVars, filterVars>>
notEngine ==
    <<dedupVars, verifyVars, reportVars, extractVars, batchVars,
      scannerVars, analyzeVars, tsVars, pyVars, cacheVars, walkVars,
      repoInputVars, splitVars, registryVars, filterVars>>
notPy ==
    <<dedupVars, verifyVars, reportVars, extractVars, batchVars,
      scannerVars, analyzeVars, tsVars, engineVars, cacheVars, walkVars,
      repoInputVars, splitVars, registryVars, filterVars>>
notTs ==
    <<dedupVars, verifyVars, reportVars, extractVars, batchVars,
      scannerVars, analyzeVars, pyVars, engineVars, cacheVars, walkVars,
      repoInputVars, splitVars, registryVars, filterVars>>
notAnalyze ==
    <<dedupVars, verifyVars, reportVars, extractVars, batchVars,
      scannerVars, tsVars, pyVars, engineVars, cacheVars, walkVars,
      repoInputVars, splitVars, registryVars, filterVars>>

\* ------------------------------------------------------------------------
\* Generic helpers
\* ------------------------------------------------------------------------

\* All sequences over S of length 0..n.
SeqsUpTo(S, n) == UNION {[1..k -> S] : k \in 0..n}

\* ========================================================================
\* deduplicate_tools  (src/mcp_tool_inspector.py:685-696)
\* ========================================================================

MaxTools == 3

\* Tool names; "search" and "Search" differ in case only.
ToolNames == {"search", "Search", "echo"}
ToolDescriptions == {"None", "Search the web."}
ToolOrigins == {"a.py", "b.ts"}

\* @dataclass ToolInfo
ToolInfo == [name : ToolNames, description : ToolDescriptions, origin : ToolOrigins]

\* str.lower() on the tool names of the model.
Lower(s) == IF s = "Search" THEN "search" ELSE s

\* Mutation of IsUnseen: names compared case-insensitively.
IsUnseenIgnoringCase(tool, seenNames) == Lower(tool.name) \notin {Lower(n) : n \in seenNames}

\* if tool.name not in seen
IsUnseen(tool, seenNames) == tool.name \notin seenNames

DedupIdle ==
    /\ tools = <<>>
    /\ seen = {}
    /\ unique = <<>>
    /\ dpos = 0
    /\ dpc = "idle"

\* seen = set(); unique = []; the iteration is about to start
DedupInit ==
    /\ tools \in SeqsUpTo(ToolInfo, MaxTools)
    /\ seen = {}
    /\ unique = <<>>
    /\ dpos = 1
    /\ dpc = "loop"

\* loop body, name not seen: seen.add(tool.name); unique.append(tool)
DedupKeep ==
    /\ dpc = "loop"
    /\ dpos <= Len(tools)
    /\ IsUnseen(tools[dpos], seen)
    /\ seen' = seen \cup {tools[dpos].name}
    /\ unique' = Append(unique, tools[dpos])
    /\ dpos' = dpos + 1
    /\ UNCHANGED <<tools, dpc>>
    /\ UNCHANGED notDedup

\* loop body, name already seen: nothing is appended
DedupDrop ==
    /\ dpc = "loop"
    /\ dpos <= Len(tools)
    /\ ~IsUnseen(tools[dpos], seen)
    /\ dpos' = dpos + 1
    /\ UNCHANGED <<tools, seen, unique, dpc>>
    /\ UNCHANGED notDedup

\* the iteration is exhausted: return unique
DedupReturn ==
    /\ dpc = "loop"
    /\ dpos > Len(tools)
    /\ dpc' = "done"
    /\ UNCHANGED <<tools, seen, unique, dpos>>
    /\ UNCHANGED notDedup

DedupNext == DedupKeep \/ DedupDrop \/ DedupReturn

\* ========================================================================
\* verify_mcp_server  (src/check_mcp_server/verify_mcp.py)
\* ========================================================================

MaxFiles == 3

\* What a file of the tree looks like to the verifier:
\*   supported  its name ends with one of the extensions of line 138
\*   readable   open()/read() succeed (otherwise both checks return False)
\*   server     some server_patterns entry matches the content
\*   client     some client_patterns entry matches the content
\*   reg        some mcp_patterns entry matches the content
FileKind(sup, rd, srv, cli, rg) ==
    [supported |-> sup, readable |-> rd, server |-> srv, client |-> cli, reg |-> rg]

FileKinds == {
    FileKind(TRUE, TRUE, TRUE, FALSE, FALSE),   \* server import only
    FileKind(TRUE, TRUE, TRUE, TRUE, FALSE),    \* server and client patterns
    FileKind(TRUE, TRUE, FALSE, TRUE, FALSE),   \* client only
    FileKind(TRUE, TRUE, FALSE, FALSE, TRUE),   \* registration only
    FileKind(TRUE, TRUE, TRUE, FALSE, TRUE),    \* server and registration
    FileKind(TRUE, TRUE, TRUE, TRUE, TRUE),     \* server, client and registration
    FileKind(TRUE, TRUE, FALSE, FALSE, FALSE),  \* no pattern
    FileKind(TRUE, FALSE, TRUE, FALSE, TRUE),   \* unreadable / undecodable
    FileKind(FALSE, TRUE, TRUE, FALSE, TRUE) }  \* unsupported extension

\* Mutation of check_mcp_imports: the client exclusion is forgotten.
check_mcp_imports_no_exclusion(f) == f.readable /\ f.server

\* check_mcp_imports: has_server and not has_client_only; False on any exception
check_mcp_imports(f) == f.readable /\ f.server /\ ~f.client

\* check_mcp_decorators: some pattern matches; False on any exception
check_mcp_decorators(f) == f.readable /\ f.reg

\* Mutation of Classify: registration evidence alone is not counted.
ClassifyImportsOnly(imports, decorators) ==
    IF imports /\ decorators THEN [confidence |-> "high", is_mcp |-> TRUE]
    ELSE IF imports THEN [confidence |-> "medium", is_mcp |-> TRUE]
    ELSE [confidence |-> "low", is_mcp |-> FALSE]

\* "Determine confidence level"
Classify(imports, decorators) ==
    IF imports /\ decorators THEN [confidence |-> "high", is_mcp |-> TRUE]
    ELSE IF imports \/ decorators THEN [confidence |-> "medium", is_mcp |-> TRUE]
    ELSE [confidence |-> "low", is_mcp |-> FALSE]

NoResult == [confidence |-> "None", is_mcp |-> FALSE]

VerifyIdle ==
    /\ vfiles = <<>>
    /\ vpos = 0
    /\ has_imports = FALSE
    /\ has_decorators = FALSE
    /\ mcp_files = <<>>
    /\ vresult = NoResult
    /\ vpc = "idle"

\* mcp_files = []; has_imports = False; has_decorators = False.
\* vfiles is the tree in os.walk order; the relative path of the file at
\* position i is i itself (os.walk yields every path once).
VerifyInit ==
    /\ vfiles \in SeqsUpTo(FileKinds, MaxFiles)
    /\ vpos = 1
    /\ has_imports = FALSE
    /\ has_decorators = FALSE
    /\ mcp_files = <<>>
    /\ vresult = NoResult
    /\ vpc = "walk"

InSeq(x, s) == \E i \in 1..Len(s) : s[i] = x

\* mcp_files after the import check of the file at path p
AfterImports(files, p, f) == IF check_mcp_imports(f) THEN Append(files, p) ELSE files

\* Mutation of AfterDecorators: the membership test is forgotten.
AfterDecoratorsUnchecked(files, p, f) ==
    IF check_mcp_decorators(f) THEN Append(files, p) ELSE files

\* mcp_files after the decorator check of the file at path p
AfterDecorators(files, p, f) ==
    IF check_mcp_decorators(f) /\ ~InSeq(p, files) THEN Append(files, p) ELSE files

\* a file whose name has none of the extensions: not looked at
VerifySkipFile ==
    /\ vpc = "walk"
    /\ vpos <= Len(vfiles)
    /\ ~vfiles[vpos].supported
    /\ vpos' = vpos + 1
    /\ UNCHANGED <<vfiles, has_imports, has_decorators, mcp_files, vresult, vpc>>
    /\ UNCHANGED notVerify

\* a file with a supported extension: both checks, in this order
VerifyFile ==
    /\ vpc = "walk"
    /\ vpos <= Len(vfiles)
    /\ vfiles[vpos].supported
    /\ has_imports' = (has_imports \/ check_mcp_imports(vfiles[vpos]))
    /\ has_decorators' = (has_decorators \/ check_mcp_decorators(vfiles[vpos]))
    /\ mcp_files' = AfterDecorators(AfterImports(mcp_files, vpos, vfiles[vpos]), vpos, vfiles[vpos])
    /\ vpos' = vpos + 1
    /\ UNCHANGED <<vfiles, vresult, vpc>>
    /\ UNCHANGED notVerify

\* the walk is over: the confidence is computed and the record returned
VerifyReturn ==
    /\ vpc = "walk"
    /\ vpos > Len(vfiles)
    /\ vresult' = Classify(has_imports, has_decorators)
    /\ vpc' = "done"
    /\ UNCHANGED <<vfiles, vpos, has_imports, has_decorators, mcp_files>>
    /\ UNCHANGED notVerify

VerifyNext == VerifySkipFile \/ VerifyFile \/ VerifyReturn

\* ========================================================================
\* Strings.  A Python str is the sequence of its characters.
\* ========================================================================

NoneS == <<>>
Some(x) == <<x>>

\* the characters str.strip() removes
IsSpace(c) == c \in {" ", "\n", "\t"}

RECURSIVE LStrip(_)
LStrip(s) == IF s # <<>> /\ IsSpace(Head(s)) THEN LStrip(Tail(s)) ELSE s

RECURSIVE RStrip(_)
RStrip(s) ==
    IF s # <<>> /\ IsSpace(s[Len(s)]) THEN RStrip(SubSeq(s, 1, Len(s) - 1)) ELSE s

\* str.strip()
Strip(s) == RStrip(LStrip(s))

\* str.startswith(p)
StartsWith(s, p) == Len(s) >= Len(p) /\ SubSeq(s, 1, Len(p)) = p

\* the indices of s holding c
IndicesOf(s, c) == {i \in 1..Len(s) : s[i] = c}
MinOf(S) == CHOOSE i \in S : \A j \in S : i <= j

\* str.split(sep), sep one character
RECURSIVE Split(_, _)
Split(s, sep) ==
    IF IndicesOf(s, sep) = {} THEN <<s>>
    ELSE LET i == MinOf(IndicesOf(s, sep))
         IN <<SubSeq(s, 1, i - 1)>> \o Split(SubSeq(s, i + 1, Len(s)), sep)

\* sep.join(parts)
RECURSIVE Join(_, _)
Join(parts, sep) ==
    IF parts = <<>> THEN <<>>
    ELSE IF Len(parts) = 1 THEN parts[1]
    ELSE parts[1] \o sep \o Join(Tail(parts), sep)

\* str.replace(old, ''): every occurrence, left to right
RECURSIVE RemoveAll(_, _)
RemoveAll(s, old) ==
    IF Len(s) < Len(old) THEN s
    ELSE IF StartsWith(s, old) THEN RemoveAll(SubSeq(s, Len(old) + 1, Len(s)), old)
    ELSE <<Head(s)>> \o RemoveAll(Tail(s), old)

\* str.replace(old, '', 1): the first occurrence only
RECURSIVE RemoveFirst(_, _)
RemoveFirst(s, old) ==
    IF Len(s) < Len(old) THEN s
    ELSE IF StartsWith(s, old) THEN SubSeq(s, Len(old) + 1, Len(s))
    ELSE <<Head(s)>> \o RemoveFirst(Tail(s), old)

\* old in s
Contains(s, old) == \E i \in 1..(Len(s) - Len(old) + 1) : SubSeq(s, i, i + Len(old) - 1) = old

\* ========================================================================
\* format_results  (src/mcp_tool_inspector.py:708-720)
\* parse_tools_output  (src/app.py:332-397)
\* ========================================================================

MaxReportTools == 2

TxtNoTools == <<"N", "o", " ", "M", "C", "P", " ", "t", "o", "o", "l", "s", " ", "w", "e", "r", "e", " ", "d", "i", "s", "c", "o", "v", "e", "r", "e", "d", " ", "i", "n", " ", "t", "h", "e", " ", "r", "e", "p", "o", "s", "i", "t", "o", "r", "y", ".">>
TxtHeader == <<"D", "i", "s", "c", "o", "v", "e", "r", "e", "d", " ", "M", "C", "P", " ", "t", "o", "o", "l", "s", ":">>
TxtName == <<"-", " ", "N", "a", "m", "e", ":">>
TxtDescription == <<"D", "e", "s", "c", "r", "i", "p", "t", "i", "o", "n", ":">>
TxtDeclaredIn == <<"D", "e", "c", "l", "a", "r", "e", "d", " ", "i", "n", ":">>
\* the markers as parse_tools_output tests them
TxtDescriptionIndented == <<" ", " ">> \o TxtDescription
TxtDeclaredInIndented == <<" ", " ">> \o TxtDeclaredIn

\* Descriptions a detector can hand to the formatter: absent, empty, one
\* line, with a leading blank, several lines (with a paragraph break, with a
\* first line ending in a blank), and lines that look like report lines.
ReportDescriptions == {
    NoneS,
    Some(<<>>),
    Some(<<"h", "i">>),
    Some(<<" ", "h", "i">>),
    Some(<<"h", "i", "\n", "y", "o">>),
    Some(<<"h", "i", "\n", "\n", "y", "o">>),
    Some(<<"h", "i", " ", "\n", "y", "o">>),
    Some(<<"h", "i", "\n", "-", " ", "N", "a", "m", "e", ":", " ", "x">>),
    Some(<<"h", "i", "\n", " ", " ", "D", "e", "c", "l", "a", "r", "e", "d", " ", "i", "n", ":", " ", "x">>),
    Some(<<"h", "i", "\n", " ", " ", "D", "e", "s", "c", "r", "i", "p", "t", "i", "o", "n", ":", " ", "x">>),
    Some(<<"h", "i", "\n", "D", "i", "s", "c", "o", "v", "e", "r", "e", "d", " ", "M", "C", "P", " ", "t", "o", "o", "l", "s", ":", "\n", "y", "o">>) }

\* (name, origin) pairs
ReportSites == { [name |-> <<"e", "c", "h", "o">>, origin |-> <<"a", ".", "t", "s">>], [name |-> <<"a", "d", "d">>, origin |-> <<"b", "/", "c", ".", "p", "y">>] }

ReportToolInfo ==
    { [name |-> s.name, description |-> d, origin |-> s.origin] :
        s \in ReportSites, d \in ReportDescriptions }

\* if tool.description: neither None nor ''
Truthy(opt) == opt # NoneS /\ opt[1] # <<>>

\* Mutation of ToolLines: the description line is written without its marker.
ToolLinesUnmarkedDescription(tool) ==
    <<TxtName \o <<" ">> \o tool.name>>
    \o (IF Truthy(tool.description) THEN <<<<" ", " ">> \o tool.description[1]>> ELSE <<>>)
    \o <<TxtDeclaredInIndented \o <<" ">> \o tool.origin \o <<"\n">>>>

\* the entries format_results appends to lines for one tool
ToolLines(tool) ==
    <<TxtName \o <<" ">> \o tool.name>>
    \o (IF Truthy(tool.description)
        THEN <<TxtDescriptionIndented \o <<" ">> \o tool.description[1]>>
        ELSE <<>>)
    \o <<TxtDeclaredInIndented \o <<" ">> \o tool.origin \o <<"\n">>>>

RECURSIVE AllToolLines(_)
AllToolLines(ts) == IF ts = <<>> THEN <<>> ELSE ToolLines(Head(ts)) \o AllToolLines(Tail(ts))

format_results(ts) ==
    IF ts = <<>> THEN TxtNoTools
    ELSE Join(<<TxtHeader \o <<"\n">>>> \o AllToolLines(ts), <<"\n">>)

\* parse_tools_output's locals before the loop
ParseStart ==
    [tools |-> <<>>, current_tool |-> NoneS, collecting_description |-> FALSE,
     description_lines |-> <<>>]

\* "Save previous tool if exists" / "Save last tool"
SaveTool(st) ==
    IF st.current_tool = NoneS THEN st.tools
    ELSE IF st.description_lines # <<>>
         THEN Append(st.tools,
                [st.current_tool[1] EXCEPT
                    !.description = Some(Strip(Join(st.description_lines, <<"\n">>)))])
         ELSE Append(st.tools, st.current_tool[1])

\* one iteration of the loop over the lines
ParseLine(st, line) ==
    LET line_stripped == Strip(line) IN
    IF line_stripped = TxtHeader THEN st
    ELSE IF StartsWith(line_stripped, TxtName) THEN
        [tools |-> SaveTool(st),
         current_tool |-> Some([name |-> Strip(RemoveAll(line_stripped, TxtName)),
                               description |-> NoneS, origin |-> NoneS]),
         collecting_description |-> FALSE,
         description_lines |-> <<>>]
    ELSE IF StartsWith(line, TxtDescriptionIndented) /\ st.current_tool # NoneS THEN
        LET desc_text == Strip(RemoveFirst(line, TxtDescriptionIndented)) IN
        [st EXCEPT !.description_lines = IF desc_text # <<>> THEN Append(@, desc_text) ELSE @,
                   !.collecting_description = TRUE]
    ELSE IF st.collecting_description /\ st.current_tool # NoneS THEN
        IF StartsWith(line, TxtDeclaredInIndented) THEN
            [st EXCEPT !.collecting_description = FALSE,
                       !.current_tool = Some([@[1] EXCEPT
                            !.origin = Some(Strip(RemoveAll(line, TxtDeclaredInIndented)))])]
        ELSE IF ~StartsWith(line_stripped, TxtName) THEN
            [st EXCEPT !.description_lines = Append(@, line)]
        ELSE st
    ELSE IF StartsWith(line_stripped, TxtDeclaredIn) /\ st.current_tool # NoneS
            /\ ~st.collecting_description THEN
        [st EXCEPT !.current_tool = Some([@[1] EXCEPT
                        !.origin = Some(Strip(RemoveAll(line_stripped, TxtDeclaredIn)))])]
    ELSE st

RECURSIVE ParseLines(_, _)
ParseLines(st, lines) ==
    IF lines = <<>> THEN st ELSE ParseLines(ParseLine(st, Head(lines)), Tail(lines))

parse_tools_output(text) == SaveTool(ParseLines(ParseStart, Split(text, "\n")))

ReportIdle ==
    /\ rtools = <<>>
    /\ output = NoneS
    /\ parsed = NoneS
    /\ rpc = "idle"

\* a ToolInfo list is about to be formatted
ReportInit ==
    /\ rtools \in SeqsUpTo(ReportToolInfo, MaxReportTools)
    /\ output = NoneS
    /\ parsed = NoneS
    /\ rpc = "format"

\* the inspector prints format_results(tools)
FormatResults ==
    /\ rpc = "format"
    /\ output' = Some(format_results(rtools))
    /\ rpc' = "parse"
    /\ UNCHANGED <<rtools, parsed>>
    /\ UNCHANGED notReport

\* run_tool_inspector parses the inspector's output
ParseToolsOutput ==
    /\ rpc = "parse"
    /\ parsed' = Some(parse_tools_output(output[1]))
    /\ rpc' = "done"
    /\ UNCHANGED <<rtools, output>>
    /\ UNCHANGED notReport

ReportNext == FormatResults \/ ParseToolsOutput

\* ========================================================================
\* _extract_balanced_segment  (src/mcp_tool_inspector.py:395-451)
\* Indices are Python's: the first character of a str has index 0.
\* ========================================================================

MaxAtoms == 2

\* source[i]; reading outside the string raises IndexError
CharAt(src, i) == IF 0 <= i /\ i < Len(src) THEN src[i + 1] ELSE "IndexError"

\* source[a:b]
Slice(src, a, b) == SubSeq(src, a + 1, b)

\* Mutation of Find: the search starts at the beginning of the source.
FindFromStart(src, pat, from) ==
    LET hits == {i \in 0..(Len(src) - Len(pat)) : Slice(src, i, i + Len(pat)) = pat}
    IN IF hits = {} THEN -1 ELSE MinOf(hits)

\* source.find(pat, from): the least index >= from where pat occurs, else -1
Find(src, pat, from) ==
    LET hits == {i \in from..(Len(src) - Len(pat)) : Slice(src, i, i + Len(pat)) = pat}
    IN IF hits = {} THEN -1 ELSE MinOf(hits)

\* The quote characters; the grave accent U+0060 of template literals is
\* written "bq".
Apostrophe == "'"
Backtick == "bq"
DoubleQuote == "\""
Backslash == "\\"

Quotes == {Apostrophe, DoubleQuote, Backtick}

\* Mutation of StringStep: a quote after a backslash closes the string.
StringStepNoEscape(char, quote, esc) ==
    IF char = quote THEN [in_string |-> "None", escape |-> FALSE]
    ELSE [in_string |-> quote, escape |-> FALSE]

\* inside a string: the (in_string, escape) pair after reading char
StringStep(char, quote, esc) ==
    IF esc THEN [in_string |-> quote, escape |-> FALSE]
    ELSE IF char = Backslash THEN [in_string |-> quote, escape |-> TRUE]
    ELSE IF char = quote THEN [in_string |-> "None", escape |-> FALSE]
    ELSE [in_string |-> quote, escape |-> FALSE]

\* Mutation of CommentAt: only line comments are recognised.
CommentAtLineOnly(src, i) ==
    IF CharAt(src, i) = "/" /\ i + 1 < Len(src) /\ CharAt(src, i + 1) = "/"
    THEN "line" ELSE "none"

\* outside a string: what starts at index, "line" for //, "block" for /*,
\* "raise" when source[index + 1] does not exist and is read, else "none"
CommentAt(src, i) ==
    IF CharAt(src, i) = "/" /\ i + 1 < Len(src)
    THEN CASE CharAt(src, i + 1) = "/" -> "line"
           [] CharAt(src, i + 1) = "*" -> "block"
           [] CharAt(src, i + 1) = "IndexError" -> "raise"
           [] OTHER -> "none"
    ELSE "none"

ResultNone == [kind |-> "None", text |-> <<>>]
ResultPending == [kind |-> "pending", text |-> <<>>]
ResultRaised == [kind |-> "raised", text |-> <<>>]
ResultSegment(text) == [kind |-> "segment", text |-> text]

\* Pieces of source text for the bracket pair (o, c): a nested pair with a
\* division sign, a string holding bracket characters, a string with an
\* escaped quote before a bracket, a string ending in an escaped backslash,
\* a string holding comment-like text, a block comment and a line comment
\* holding a bracket and a quote.
Atoms(o, c) == {
    <<o, "a", "/", c>>,
    <<Apostrophe, c, o, Apostrophe>>,
    <<DoubleQuote, Backslash, DoubleQuote, c, DoubleQuote>>,
    <<Apostrophe, Backslash, Backslash, Apostrophe>>,
    <<Backtick, "/", "/", c, "/", "*", Backtick>>,
    <<"/", "*", c, Apostrophe, "*", "/">>,
    <<"/", "/", c, DoubleQuote, "\n">> }

RECURSIVE Concat(_)
Concat(ss) == IF ss = <<>> THEN <<>> ELSE Head(ss) \o Concat(Tail(ss))

\* well-formed interiors: up to MaxAtoms pieces in a row
Interiors(o, c) == {Concat(ss) : ss \in SeqsUpTo(Atoms(o, c), MaxAtoms)}

BracketPairs == { <<"(", ")">>, <<"{", "}">> }

\* The calls of the model.  "full": text before the opening character, the
\* opening character at start_index, a well-formed interior, the closing
\* character, text after it.  "truncated": the same cut before the closing
\* character.  "misplaced": start_index is not at an opening character.
ExtractCalls ==
    LET Full(p, pre, inner, post) ==
            [source |-> pre \o <<p[1]>> \o inner \o <<p[2]>> \o post, start_index |-> Len(pre),
             open_char |-> p[1], close_char |-> p[2], kind |-> "full", interior |-> inner]
        Cut(p, pre, inner, n) ==
            [source |-> SubSeq(pre \o <<p[1]>> \o inner, 1, n), start_index |-> Len(pre),
             open_char |-> p[1], close_char |-> p[2], kind |-> "truncated", interior |-> inner]
        Off(p, pre, inner, at) ==
            [source |-> pre \o <<p[1]>> \o inner \o <<p[2]>>, start_index |-> at,
             open_char |-> p[1], close_char |-> p[2], kind |-> "misplaced", interior |-> inner]
    IN  UNION { UNION {
            {Full(p, pre, inner, post) : pre \in {<<>>, <<"f">>}, post \in {<<>>, <<p[2], ";">>}}
            \cup {Cut(p, <<"f">>, inner, n) : n \in 2..(Len(inner) + 2)}
            \cup {Off(p, <<"f">>, inner, at) : at \in {0, Len(inner) + 3}}
          : inner \in Interiors(p[1], p[2]) } : p \in BracketPairs }

ExtractIdle ==
    /\ source = <<>>
    /\ start_index = 0
    /\ open_char = "("
    /\ close_char = ")"
    /\ index = 0
    /\ depth = 0
    /\ in_string = "None"
    /\ escape = FALSE
    /\ xresult = ResultPending
    /\ xpc = "idle"
    /\ xcase = [kind |-> "idle", interior |-> <<>>]

\* the function has been called
ExtractInit ==
    \E call \in ExtractCalls :
        /\ source = call.source
        /\ start_index = call.start_index
        /\ open_char = call.open_char
        /\ close_char = call.close_char
        /\ index = 0
        /\ depth = 0
        /\ in_string = "None"
        /\ escape = FALSE
        /\ xresult = ResultPending
        /\ xpc = "entry"
        /\ xcase = [kind |-> call.kind, interior |-> call.interior]

xinputs == <<source, start_index, open_char, close_char, xcase>>

\* start_index is past the end or not at the opening character: return None
ExtractReject ==
    /\ xpc = "entry"
    /\ (start_index >= Len(source) \/ CharAt(source, start_index) # open_char)
    /\ xresult' = ResultNone
    /\ xpc' = "done"
    /\ UNCHANGED <<xinputs, index, depth, in_string, escape>>
    /\ UNCHANGED notExtract

\* depth = 1; in_string = None; escape = False; index = segment_start
ExtractEnter ==
    /\ xpc = "entry"
    /\ ~(start_index >= Len(source) \/ CharAt(source, start_index) # open_char)
    /\ depth' = 1
    /\ in_string' = "None"
    /\ escape' = FALSE
    /\ index' = start_index + 1
    /\ xpc' = "scan"
    /\ UNCHANGED <<xinputs, xresult>>
    /\ UNCHANGED notExtract

\* if in_string: the character belongs to a string literal
ExtractInString ==
    /\ xpc = "scan"
    /\ index < Len(source)
    /\ in_string # "None"
    /\ LET st == StringStep(CharAt(source, index), in_string, escape)
       IN in_string' = st.in_string /\ escape' = st.escape
    /\ index' = index + 1
    /\ UNCHANGED <<xinputs, depth, xresult, xpc>>
    /\ UNCHANGED notExtract

\* //: skip to after the next newline, or return None when there is none
ExtractLineComment ==
    /\ xpc = "scan"
    /\ index < Len(source)
    /\ in_string = "None"
    /\ CommentAt(source, index) = "line"
    /\ LET newline == Find(source, <<"\n">>, index + 2)
       IN IF newline = -1
          THEN xresult' = ResultNone /\ xpc' = "done" /\ index' = index
          ELSE xresult' = xresult /\ xpc' = xpc /\ index' = newline + 1
    /\ UNCHANGED <<xinputs, depth, in_string, escape>>
    /\ UNCHANGED notExtract

\* /*: skip to after the next */, or return None when there is none
ExtractBlockComment ==
    /\ xpc = "scan"
    /\ index < Len(source)
    /\ in_string = "None"
    /\ CommentAt(source, index) = "block"
    /\ LET end_comment == Find(source, <<"*", "/">>, index + 2)
       IN IF end_comment = -1
          THEN xresult' = ResultNone /\ xpc' = "done" /\ index' = index
          ELSE xresult' = xresult /\ xpc' = xpc /\ index' = end_comment + 2
    /\ UNCHANGED <<xinputs, depth, in_string, escape>>
    /\ UNCHANGED notExtract

\* a quote character outside a string opens a string literal
ExtractOpenString ==
    /\ xpc = "scan"
    /\ index < Len(source)
    /\ in_string = "None"
    /\ CommentAt(source, index) \notin {"line", "block", "raise"}
    /\ CharAt(source, index) \in Quotes
    /\ in_string' = CharAt(source, index)
    /\ index' = index + 1
    /\ UNCHANGED <<xinputs, depth, escape, xresult, xpc>>
    /\ UNCHANGED notExtract

\* any other character: the depth is counted, and the segment is returned
\* when the depth comes back to zero
ExtractCount ==
    /\ xpc = "scan"
    /\ index < Len(source)
    /\ in_string = "None"
    /\ CommentAt(source, index) \notin {"line", "block", "raise"}
    /\ CharAt(source, index) \notin Quotes
    /\ LET char == CharAt(source, index)
           d == IF char = open_char THEN depth + 1
                ELSE IF char = close_char THEN depth - 1
                ELSE depth
       IN IF char # open_char /\ char = close_char /\ d = 0
          THEN /\ xresult' = ResultSegment(Slice(source, start_index + 1, index))
               /\ xpc' = "done"
               /\ depth' = d
               /\ index' = index
          ELSE /\ xresult' = xresult
               /\ xpc' = xpc
               /\ depth' = d
               /\ index' = index + 1
    /\ UNCHANGED <<xinputs, in_string, escape>>
    /\ UNCHANGED notExtract

\* the loop condition fails (the source is exhausted), or a read outside
\* the source raised: return None, resp. propagate the IndexError
ExtractExhausted ==
    /\ xpc = "scan"
    /\ \/ index >= Len(source)
       \/ (in_string = "None" /\ CommentAt(source, index) = "raise")
    /\ xresult' = IF index >= Len(source) THEN ResultNone ELSE ResultRaised
    /\ xpc' = "done"
    /\ UNCHANGED <<xinputs, index, depth, in_string, escape>>
    /\ UNCHANGED notExtract

ExtractNext ==
    \/ ExtractReject
    \/ ExtractEnter
    \/ ExtractInString
    \/ ExtractLineComment
    \/ ExtractBlockComment
    \/ ExtractOpenString
    \/ ExtractCount
    \/ ExtractExhausted

\* ========================================================================
\* filter_mcp_servers.py: process_repository and the parallel batch of main
\* (src/check_mcp_server/filter_mcp_servers.py:10-94, 151-184)
\* ========================================================================

MaxRepos == 3
MaxWorkers == 2

\* full_name values of the CSV rows
FullNames == {"o/a", "o/b"}

\* the JSON verify_mcp.py prints for a working copy (one value stands for
\* all: the batch only passes it on)
Verifications == { [is_mcp |-> TRUE, confidence |-> "high"] }

\* a record of the results list; error is "None" when the key is absent
ResultRecord(name, v, err) ==
    [full_name |-> name, is_mcp |-> v.is_mcp, confidence |-> v.confidence, error |-> err]

NotMcp == [is_mcp |-> FALSE, confidence |-> "low"]

\* a future: queued, or run by a worker thread (cloning, verifying, hung in
\* git clone), or completed with a result or with an exception
Queued == [state |-> "queued", result |-> ResultRecord("None", NotMcp, "None")]
Running(st) == [state |-> st, result |-> ResultRecord("None", NotMcp, "None")]
Finished(rec) == [state |-> "finished", result |-> rec]
Raised == [state |-> "raised", result |-> ResultRecord("None", NotMcp, "None")]

Tasks == 1..Len(repositories)
Busy == {i \in Tasks : future[i].state \in {"cloning", "verifying", "hung"}}
Completed == {i \in Tasks : future[i].state \in {"finished", "raised"}}

\* Mutation of RepoOfFuture: the repository is inferred from arrival order.
RepoByArrival(i) == repositories[Len(results) + 1]

\* future_to_repo[future]['full_name']
RepoOfFuture(i) == repositories[i]

BatchIdle ==
    /\ repositories = <<>>
    /\ future = <<>>
    /\ results = <<>>
    /\ yielded = {}
    /\ servers_dir = {}
    /\ bpc = "idle"

\* more than one repository to process, every one submitted to the pool;
\* servers_dir holds the clones earlier runs left
BatchInit ==
    /\ repositories \in UNION {[1..k -> FullNames] : k \in 2..MaxRepos}
    /\ future = [i \in 1..Len(repositories) |-> Queued]
    /\ results = <<>>
    /\ yielded = {}
    /\ servers_dir \in SUBSET FullNames
    /\ bpc = "collect"

\* a free worker thread takes a queued call of process_repository; the
\* clone is skipped when the repository directory exists
WorkerStart ==
    \E i \in Tasks :
        /\ bpc = "collect"
        /\ future[i].state = "queued"
        /\ Cardinality(Busy) < MaxWorkers
        /\ future' = [future EXCEPT ![i] =
                        IF repositories[i] \in servers_dir THEN Running("verifying")
                        ELSE Running("cloning")]
        /\ UNCHANGED <<repositories, results, yielded, servers_dir, bpc>>
        /\ UNCHANGED notBatch

\* git clone exits 0
CloneOk ==
    \E i \in Tasks :
        /\ future[i].state = "cloning"
        /\ repositories[i] \notin servers_dir
        /\ servers_dir' = servers_dir \cup {repositories[i]}
        /\ future' = [future EXCEPT ![i] = Running("verifying")]
        /\ UNCHANGED <<repositories, results, yielded, bpc>>
        /\ UNCHANGED notBatch

\* git clone exits non-zero: clone_repository returns False and
\* process_repository returns the 'Failed to clone' record
CloneFail ==
    \E i \in Tasks :
        /\ future[i].state = "cloning"
        /\ future' = [future EXCEPT ![i] =
                        Finished(ResultRecord(repositories[i], NotMcp, "Failed to clone"))]
        /\ UNCHANGED <<repositories, results, yielded, servers_dir, bpc>>
        /\ UNCHANGED notBatch

\* subprocess.run raises something else (git cannot be executed): the
\* exception leaves process_repository and is stored in the future
CloneRaise ==
    \E i \in Tasks :
        /\ future[i].state = "cloning"
        /\ future' = [future EXCEPT ![i] = Raised]
        /\ UNCHANGED <<repositories, results, yielded, servers_dir, bpc>>
        /\ UNCHANGED notBatch

\* git clone never exits: subprocess.run has no timeout and blocks
CloneHang ==
    \E i \in Tasks :
        /\ future[i].state = "cloning"
        /\ future' = [future EXCEPT ![i] = Running("hung")]
        /\ UNCHANGED <<repositories, results, yielded, servers_dir, bpc>>
        /\ UNCHANGED notBatch

\* verify_mcp.py prints its JSON: the record gets the full_name
VerifyOk ==
    \E i \in Tasks :
        /\ future[i].state = "verifying"
        /\ \E v \in Verifications :
              future' = [future EXCEPT ![i] = Finished(ResultRecord(repositories[i], v, "None"))]
        /\ UNCHANGED <<repositories, results, yielded, servers_dir, bpc>>
        /\ UNCHANGED notBatch

\* verify_mcp.py fails or prints no JSON: verify_repository returns its
\* error record, which gets the full_name
VerifyFail ==
    \E i \in Tasks :
        /\ future[i].state = "verifying"
        /\ future' = [future EXCEPT ![i] =
                        Finished(ResultRecord(repositories[i], NotMcp, "verify failed"))]
        /\ UNCHANGED <<repositories, results, yielded, servers_dir, bpc>>
        /\ UNCHANGED notBatch

\* subprocess.run raises something else in verify_repository (python3 cannot
\* be executed), or the printed JSON has no is_mcp key: the exception leaves
\* process_repository and is stored in the future
VerifyRaise ==
    \E i \in Tasks :
        /\ future[i].state = "verifying"
        /\ future' = [future EXCEPT ![i] = Raised]
        /\ UNCHANGED <<repositories, results, yielded, servers_dir, bpc>>
        /\ UNCHANGED notBatch

\* as_completed yields a completed future: its result is appended, or, when
\* future.result() raises, an error record for future_to_repo[future]
Collect ==
    \E i \in Tasks :
        /\ bpc = "collect"
        /\ i \in Completed \ yielded
        /\ results' = Append(results,
                        IF future[i].state = "finished" THEN future[i].result
                        ELSE ResultRecord(RepoOfFuture(i), NotMcp, "exception"))
        /\ yielded' = yielded \cup {i}
        /\ UNCHANGED <<repositories, future, servers_dir, bpc>>
        /\ UNCHANGED notBatch

\* every future has been yielded: the with block is left
BatchDone ==
    /\ bpc = "collect"
    /\ yielded = Tasks
    /\ bpc' = "done"
    /\ UNCHANGED <<repositories, future, results, yielded, servers_dir>>
    /\ UNCHANGED notBatch

BatchNext ==
    \/ WorkerStart
    \/ CloneOk
    \/ CloneFail
    \/ CloneRaise
    \/ CloneHang
    \/ VerifyOk
    \/ VerifyFail
    \/ VerifyRaise
    \/ Collect
    \/ BatchDone

\* ========================================================================
\* check_mcp_server/main.py: clone_repo, run_scanner and the loop of main
\* (src/check_mcp_server/main.py:23-89)
\* ========================================================================

MaxServers == 3

\* full_name values of the CSV rows (owner, repository), one row each
ServerNames == {<<"o", k>> : k \in 1..MaxServers}

\* the JSON list scan_engine.py prints for a working copy
ScannedTools == {<<>>, <<"echo">>}

\* a record of scan_results.json (csv_tools, copied from the row, left out)
ScanRecord(name, found) == [full_name |-> name, found_tools |-> found]

\* run_scanner: the printed list, or [] after any exception
run_scanner(ok, printed) == IF ok THEN printed ELSE <<>>

ScannerIdle ==
    /\ servers = <<>>
    /\ spos = 0
    /\ scan_results = <<>>
    /\ outcomes = <<>>
    /\ saved = NoneS
    /\ spc = "idle"

\* the rows read from the CSV; outcomes records what happened to each row
\* processed so far
ScannerInit ==
    /\ servers \in {s \in SeqsUpTo(ServerNames, MaxServers) :
                      \A i, j \in 1..Len(s) : i # j => s[i] # s[j]}
    /\ spos = 1
    /\ scan_results = <<>>
    /\ outcomes = <<>>
    /\ saved = NoneS
    /\ spc = "loop"

\* git clone exits non-zero: clone_repo returns False, nothing is appended
ScanCloneFailed ==
    /\ spc = "loop"
    /\ spos <= Len(servers)
    /\ outcomes' = Append(outcomes, "clone_failed")
    /\ spos' = spos + 1
    /\ UNCHANGED <<servers, scan_results, saved, spc>>
    /\ UNCHANGED notScanner

\* subprocess.run raises something else in clone_repo (git cannot be
\* executed): the exception leaves main, scan_results.json is not written
ScanCloneRaised ==
    /\ spc = "loop"
    /\ spos <= Len(servers)
    /\ outcomes' = Append(outcomes, "clone_raised")
    /\ spc' = "crashed"
    /\ UNCHANGED <<servers, spos, scan_results, saved>>
    /\ UNCHANGED notScanner

\* the working copy is there, scan_engine.py fails or prints no JSON
ScanFailed ==
    /\ spc = "loop"
    /\ spos <= Len(servers)
    /\ \E printed \in ScannedTools :
          scan_results' = Append(scan_results,
                                 ScanRecord(servers[spos], run_scanner(FALSE, printed)))
    /\ outcomes' = Append(outcomes, "scan_failed")
    /\ spos' = spos + 1
    /\ UNCHANGED <<servers, saved, spc>>
    /\ UNCHANGED notScanner

\* the working copy is there, scan_engine.py prints its list
ScanSucceeded ==
    /\ spc = "loop"
    /\ spos <= Len(servers)
    /\ \E printed \in ScannedTools :
          scan_results' = Append(scan_results,
                                 ScanRecord(servers[spos], run_scanner(TRUE, printed)))
    /\ outcomes' = Append(outcomes, "scanned")
    /\ spos' = spos + 1
    /\ UNCHANGED <<servers, saved, spc>>
    /\ UNCHANGED notScanner

\* after the last row scan_results.json is written
ScannerSave ==
    /\ spc = "loop"
    /\ spos > Len(servers)
    /\ saved' = Some(scan_results)
    /\ spc' = "done"
    /\ UNCHANGED <<servers, spos, scan_results, outcomes>>
    /\ UNCHANGED notScanner

ScannerNext ==
    \/ ScanCloneFailed
    \/ ScanCloneRaised
    \/ ScanFailed
    \/ ScanSucceeded
    \/ ScannerSave

\* ========================================================================
\* analyze_repository (src/mcp_tool_inspector.py:626-682)
\* ========================================================================

MaxSourceFiles == 3

\* a file of the tree: its language, what happens when it is analysed, and
\* whether its analysis finds a tool
SourceFile(lang, fate, declares) == [lang |-> lang, fate |-> fate, declares |-> declares]

SourceFiles ==
    {SourceFile(l, f, FALSE) : l \in {"py", "ts", "go"}, f \in {"skipped", "unreadable"}}
    \cup {SourceFile("py", f, FALSE) : f \in {"syntax_error", "raises"}}
    \cup {SourceFile(l, "analysed", d) : l \in {"py", "ts", "go"}, d \in BOOLEAN}

\* the three loops run one after the other: *.py, then *.ts/*.js, then *.go
LoopOf(lang) == IF lang = "py" THEN 1 ELSE IF lang = "ts" THEN 2 ELSE 3

\* analyzer.tools / analyze_typescript_source / analyze_go_source of file i
ToolsIn(i) ==
    IF afiles[i].fate = "analysed" /\ afiles[i].declares
    THEN <<[name |-> "echo", origin |-> i]>>
    ELSE <<>>

AnalyzeIdle ==
    /\ afiles = <<>>
    /\ apos = 0
    /\ collected = <<>>
    /\ apc = "idle"

AnalyzeInit ==
    /\ afiles \in {s \in SeqsUpTo(SourceFiles, MaxSourceFiles) :
                     \A i, j \in 1..Len(s) : i < j => LoopOf(s[i].lang) <= LoopOf(s[j].lang)}
    /\ apos = 1
    /\ collected = <<>>
    /\ apc = "walking"

\* _should_skip_path, or a .min.js / .min.ts name: continue
AnalyzeSkipPath ==
    /\ apc = "walking"
    /\ apos <= Len(afiles)
    /\ afiles[apos].fate = "skipped"
    /\ apos' = apos + 1
    /\ UNCHANGED <<afiles, collected, apc>>
    /\ UNCHANGED notAnalyze

\* read_text raises OSError or UnicodeDecodeError: continue
AnalyzeUnreadable ==
    /\ apc = "walking"
    /\ apos <= Len(afiles)
    /\ afiles[apos].fate = "unreadable"
    /\ apos' = apos + 1
    /\ UNCHANGED <<afiles, collected, apc>>
    /\ UNCHANGED notAnalyze

\* ast.parse raises SyntaxError: continue
AnalyzeSyntaxError ==
    /\ apc = "walking"
    /\ apos <= Len(afiles)
    /\ afiles[apos].fate = "syntax_error"
    /\ apos' = apos + 1
    /\ UNCHANGED <<afiles, collected, apc>>
    /\ UNCHANGED notAnalyze

\* ast.parse or analyzer.visit raises anything else (RecursionError on a
\* deeply nested expression): no handler, the exception leaves
\* analyze_repository and its list is gone with the frame
AnalyzeRaise ==
    /\ apc = "walking"
    /\ apos <= Len(afiles)
    /\ afiles[apos].fate = "raises"
    /\ collected' = <<>>
    /\ apc' = "raised"
    /\ UNCHANGED <<afiles, apos>>
    /\ UNCHANGED notAnalyze

\* the file is analysed: collected.extend(...)
AnalyzeCollect ==
    /\ apc = "walking"
    /\ apos <= Len(afiles)
    /\ afiles[apos].fate = "analysed"
    /\ collected' = collected \o ToolsIn(apos)
    /\ apos' = apos + 1
    /\ UNCHANGED <<afiles, apc>>
    /\ UNCHANGED notAnalyze

\* return collected
AnalyzeReturn ==
    /\ apc = "walking"
    /\ apos > Len(afiles)
    /\ apc' = "returned"
    /\ UNCHANGED <<afiles, apos, collected>>
    /\ UNCHANGED notAnalyze

AnalyzeNext ==
    \/ AnalyzeSkipPath
    \/ AnalyzeUnreadable
    \/ AnalyzeSyntaxError
    \/ AnalyzeRaise
    \/ AnalyzeCollect
    \/ AnalyzeReturn

\* ========================================================================
\* analyze_typescript_source, _parse_tool_object, _extract_field_from_object
\* (src/mcp_tool_inspector.py:454-478, 524-625).
\* A source file is taken statement by statement, a statement token by
\* token: a quoted literal, a bare identifier or an object literal, an
\* object literal being its fields in order.  The statement forms are
\*     const ID = "literal";          (CONST_LITERAL_PATTERN)
\*     const ID = { fields };         (TOOL_OBJECT_DECL_PATTERN)
\*     server.registerTool(args)      (TOOL_CALL_PATTERN, "(" follows)
\* ========================================================================

MaxStatements == 2

\* tokens; text is the content of a literal without its quotes
Quoted(s) == [kind |-> "quoted", text |-> s, fields |-> <<>>]
Ident(x) == [kind |-> "ident", text |-> x, fields |-> <<>>]
Object(fs) == [kind |-> "object", text |-> "", fields |-> fs]

Field(k, v) == [key |-> k, value |-> v]

\* statements; closed: the bracket the statement opens is closed in the source
ConstLiteral(id, s) ==
    [stmt |-> "const_literal", identifier |-> id, value |-> Quoted(s), args |-> <<>>,
     closed |-> TRUE]
ObjectDecl(id, fs) ==
    [stmt |-> "object_decl", identifier |-> id, value |-> Object(fs), args |-> <<>>,
     closed |-> TRUE]
RegisterCall(as) ==
    [stmt |-> "call", identifier |-> "registerTool", value |-> Quoted(""), args |-> as,
     closed |-> TRUE]

\* the statement cut before its closing brace or parenthesis
Truncated(st) == [st EXCEPT !.closed = FALSE]

\* _extract_balanced_segment at the bracket the statement opens: the fields
\* of the object, resp. the arguments of the call, or None when the bracket
\* is not closed
BalancedSegment(st) ==
    IF ~st.closed THEN NoneS
    ELSE IF st.stmt = "object_decl" THEN Some(st.value.fields)
    ELSE Some(st.args)

\* Mutation of NextCandidate: a candidate without a segment ends the loop.
NextCandidateOrReturn(block, pos, last) == IF block = NoneS THEN last + 1 ELSE pos + 1

\* the candidate examined after the one at pos: continue, also when the
\* extractor gave None
NextCandidate(block, pos, last) == pos + 1

\* _unquote of a quoted literal without escapes: the text between the quotes
TsUnquote(v) == v.text

\* Python truth of an Optional[str]
TsTruthy(opt) == opt # NoneS /\ opt[1] # ""

\* a or b
TsOr(a, b) == IF TsTruthy(a) THEN a ELSE b

\* _extract_field_from_object: the first "field_name: <quote>...<quote>" of
\* the text; a field whose value does not open with a quote does not match
\* and the search goes on
RECURSIVE ExtractField(_, _)
ExtractField(fs, field_name) ==
    IF fs = <<>> THEN NoneS
    ELSE IF Head(fs).key = field_name /\ Head(fs).value.kind = "quoted"
         THEN Some(TsUnquote(Head(fs).value))
         ELSE ExtractField(Tail(fs), field_name)

TsToolInfo(n, d, o) == [name |-> n, description |-> d, origin |-> o]

\* the one file analysed here
TsOrigin == "a.ts"

\* _parse_tool_object: None (the empty tuple) or one ToolInfo
ParseToolObject(fs, origin) ==
    LET name == TsOr(ExtractField(fs, "name"), ExtractField(fs, "title"))
        description == TsOr(ExtractField(fs, "description"), ExtractField(fs, "summary"))
    IN IF ~TsTruthy(name) THEN NoneS
       ELSE Some(TsToolInfo(name[1], description, origin))

\* the tools one call contributes (lines 583-614; no argument is an array)
CallTools(as, origin) ==
    IF as = <<>> THEN <<>>
    ELSE IF as[1].kind = "object" THEN ParseToolObject(as[1].fields, origin)
    ELSE
        LET name == IF as[1].kind = "quoted" THEN Some(TsUnquote(as[1])) ELSE NoneS
            info == IF Len(as) > 1 /\ as[2].kind = "object"
                    THEN ParseToolObject(as[2].fields, origin) ELSE NoneS
            description ==
                IF Len(as) > 1
                THEN IF as[2].kind = "object"
                     THEN IF info # NoneS THEN info[1].description ELSE NoneS
                     ELSE IF as[2].kind = "quoted" THEN Some(TsUnquote(as[2])) ELSE NoneS
                ELSE NoneS
        IN IF TsTruthy(name) THEN <<TsToolInfo(name[1], description, origin)>> ELSE <<>>

TsNames == {"echo", "greet"}
TsDescriptionFields ==
    {<<>>, <<Field("description", Quoted("says hi"))>>, <<Field("summary", Quoted("sums"))>>}
TsNameFields ==
    {<<>>, <<Field("name", Quoted("greet"))>>, <<Field("name", Quoted(""))>>,
     <<Field("name", Ident("GREET"))>>, <<Field("title", Quoted("greet"))>>,
     <<Field("name", Ident("GREET")), Field("title", Quoted("T"))>>}
\* the object literals declared with const
TsObjects == {n \o d : n \in TsNameFields, d \in TsDescriptionFields}

\* the object literals passed to a call
TsCallObjects ==
    {n \o d : n \in {<<>>, <<Field("name", Quoted("x"))>>, <<Field("title", Quoted("Echo"))>>},
              d \in {<<>>, <<Field("description", Quoted("Echoes input"))>>}}

TsArguments ==
    {<<>>, <<Ident("handler")>>, <<Quoted("")>>, <<Quoted("echo")>>,
     <<Quoted("echo"), Quoted("Echoes input")>>, <<Quoted("echo"), Ident("handler")>>}
    \cup {<<Object(o)>> : o \in TsCallObjects}
    \cup {<<Quoted("echo"), Object(o)>> : o \in TsCallObjects}

TsStatements ==
    {ConstLiteral("GREET", s) : s \in TsNames}
    \cup {ObjectDecl("tool", o) : o \in TsObjects}
    \cup {RegisterCall(as) : as \in TsArguments}
    \cup {Truncated(ObjectDecl("tool", <<Field("name", Quoted("greet"))>>)),
          Truncated(RegisterCall(<<Quoted("echo")>>)),
          Truncated(RegisterCall(<<Object(<<Field("name", Quoted("x"))>>)>>))}

\* the constants of the whole file, a later declaration replacing an earlier
\* one; an identifier without a constant maps to None
RECURSIVE ConstantsOf(_)
ConstantsOf(src) ==
    IF src = <<>> THEN [id \in {"GREET", "tool"} |-> NoneS]
    ELSE LET before == ConstantsOf(SubSeq(src, 1, Len(src) - 1))
             last == src[Len(src)]
         IN IF last.stmt = "const_literal"
            THEN [before EXCEPT ![last.identifier] = Some(TsUnquote(last.value))]
            ELSE before

TsIdle ==
    /\ tsource = <<>>
    /\ constants = ConstantsOf(<<>>)
    /\ ttools = <<>>
    /\ tpos = 0
    /\ tpc = "idle"

\* tools = []; constants = {}
TsInit ==
    /\ tsource \in SeqsUpTo(TsStatements, MaxStatements)
    /\ constants = ConstantsOf(<<>>)
    /\ ttools = <<>>
    /\ tpos = 0
    /\ tpc = "constants"

\* for match in CONST_LITERAL_PATTERN.finditer(source)
TsCollectConstants ==
    /\ tpc = "constants"
    /\ constants' = ConstantsOf(tsource)
    /\ tpos' = 1
    /\ tpc' = "objects"
    /\ UNCHANGED <<tsource, ttools>>
    /\ UNCHANGED notTs

\* one step of the TOOL_OBJECT_DECL_PATTERN loop
TsObjectDecl ==
    /\ tpc = "objects"
    /\ tpos <= Len(tsource)
    /\ LET st == tsource[tpos]
           block == BalancedSegment(st)
           info == IF block = NoneS THEN NoneS ELSE ParseToolObject(block[1], TsOrigin)
       IN /\ IF st.stmt = "object_decl" /\ info # NoneS
             THEN /\ ttools' = Append(ttools, info[1])
                  /\ constants' = IF constants[st.identifier] = NoneS
                                  THEN [constants EXCEPT ![st.identifier] = Some(info[1].name)]
                                  ELSE constants
             ELSE UNCHANGED <<ttools, constants>>
          /\ tpos' = IF st.stmt = "object_decl"
                     THEN NextCandidate(block, tpos, Len(tsource))
                     ELSE tpos + 1
    /\ UNCHANGED <<tsource, tpc>>
    /\ UNCHANGED notTs

\* the object loop is over; no class extends BaseTool; on to the calls
TsObjectsDone ==
    /\ tpc = "objects"
    /\ tpos > Len(tsource)
    /\ tpos' = 1
    /\ tpc' = "calls"
    /\ UNCHANGED <<tsource, constants, ttools>>
    /\ UNCHANGED notTs

\* one step of the TOOL_CALL_PATTERN loop
TsCall ==
    /\ tpc = "calls"
    /\ tpos <= Len(tsource)
    /\ LET st == tsource[tpos]
           arguments == BalancedSegment(st)
       IN /\ ttools' = IF st.stmt = "call" /\ arguments # NoneS
                       THEN ttools \o CallTools(arguments[1], TsOrigin)
                       ELSE ttools
          /\ tpos' = IF st.stmt = "call"
                     THEN NextCandidate(arguments, tpos, Len(tsource))
                     ELSE tpos + 1
    /\ UNCHANGED <<tsource, constants, tpc>>
    /\ UNCHANGED notTs

\* return tools
TsReturn ==
    /\ tpc = "calls"
    /\ tpos > Len(tsource)
    /\ tpc' = "returned"
    /\ UNCHANGED <<tsource, constants, ttools, tpos>>
    /\ UNCHANGED notTs

TsNext ==
    \/ TsCollectConstants
    \/ TsObjectDecl
    \/ TsObjectsDone
    \/ TsCall
    \/ TsReturn

\* ========================================================================
\* MCPToolAnalyzer (src/mcp_tool_inspector.py:88-115, 129-233): the visit of
\* a parsed module, taken node by node.  The nodes are function definitions
\* with at most one decorator and class definitions whose body holds
\* assignments of constants; a decorator is a name or an attribute, called
\* or not.  No call of the module is a registry registration.
\* ========================================================================

MaxNodes == 2

\* Python values; a str is the tuple of its lines
PyStr(ls) == [type |-> "str", lines |-> ls]
\* an int, by its decimal digits
PyInt(n) == [type |-> "int", lines |-> <<n>>]
PyNone == [type |-> "NoneType", lines |-> <<>>]

\* if value: (None, '' and 0 are false)
PyTruthy(v) ==
    \/ v.type = "str" /\ v.lines # <<"">>
    \/ v.type = "int" /\ v.lines # <<"0">>

\* _extract_constant: the value of a string constant, None for anything else
ExtractConstant(arg) ==
    IF arg # NoneS /\ arg[1].type = "str" THEN arg[1] ELSE PyNone

\* str.lower() on the identifiers of the model
PyLower(id) == IF id = "Tool" THEN "tool" ELSE id

\* a decorator expression: Name(id) or Attribute(attr=id), wrapped in a Call
\* when called is true, then with an optional name= keyword and an optional
\* first positional argument, both constants
Decorator(node, id, called, kw, arg) ==
    [node |-> node, id |-> id, called |-> called, name_kw |-> kw, first_arg |-> arg]

Decorators ==
    {Decorator("Name", "tool", FALSE, NoneS, NoneS),
     Decorator("Attribute", "tool", FALSE, NoneS, NoneS),
     Decorator("Attribute", "Tool", TRUE, NoneS, NoneS),
     Decorator("Attribute", "tool", TRUE, Some(PyStr(<<"web">>)), NoneS),
     Decorator("Attribute", "tool", TRUE, Some(PyStr(<<"">>)), NoneS),
     Decorator("Attribute", "tool", TRUE, NoneS, Some(PyStr(<<"web">>))),
     Decorator("Attribute", "tool", TRUE, NoneS, Some(PyInt("5"))),
     Decorator("Name", "register_tool", FALSE, NoneS, NoneS),
     Decorator("Attribute", "register_tool", FALSE, NoneS, NoneS),
     Decorator("Name", "staticmethod", FALSE, NoneS, NoneS),
     Decorator("Attribute", "route", TRUE, NoneS, Some(PyStr(<<"/x">>)))}

\* ast.get_docstring(node): None or the whole cleaned documentation string
Docstrings ==
    {PyNone, PyStr(<<"">>), PyStr(<<"Search the web.">>),
     PyStr(<<"Search the web.", "", "More detail.">>)}

FunctionDef(name, decos, doc) ==
    [node |-> "FunctionDef", name |-> name, decorator_list |-> decos, docstring |-> doc,
     tool_base |-> FALSE, name_value |-> NoneS, description_value |-> NoneS]

\* a class; tool_base: some base is a name or attribute containing "tool";
\* name_value, description_value: the constants assigned to name and
\* description in the body, if any
ClassDef(name, base, doc, nv, dv) ==
    [node |-> "ClassDef", name |-> name, decorator_list |-> <<>>, docstring |-> doc,
     tool_base |-> base, name_value |-> nv, description_value |-> dv]

PyNodes ==
    {FunctionDef("search", ds, doc) :
        ds \in {<<>>} \cup {<<d>> : d \in Decorators}, doc \in Docstrings}
    \cup {ClassDef("EchoTool", b, dd[1], nv, dd[2]) :
            b \in BOOLEAN,
            nv \in {NoneS, Some(PyStr(<<"echo">>)), Some(PyStr(<<"">>)), Some(PyInt("5")),
                    Some(PyNone)},
            dd \in {<<PyNone, NoneS>>, <<PyStr(<<"Doc">>), NoneS>>,
                    <<PyStr(<<"Doc">>), Some(PyStr(<<"d">>))>>}}

\* self.module_path
ModulePath == "pkg/srv.py"

PyToolInfo(n, d, o) == [name |-> n, description |-> d, origin |-> o]

\* _is_tool_decorator
IsToolDecorator(d) ==
    IF d.node = "Name" THEN PyLower(d.id) = "tool"
    ELSE PyLower(d.id) \in {"tool", "register_tool"}

\* _looks_like_tool_constructor on a call of the decorator's function
LooksLikeToolConstructor(d) == PyLower(d.id) = "tool"

\* _extract_tool_from_constructor on a call with an optional name= keyword
\* and an optional constant first argument: no tool, or one
ExtractToolFromConstructor(d, origin) ==
    LET kw_name == IF d.name_kw # NoneS THEN ExtractConstant(d.name_kw) ELSE PyNone
        name == IF kw_name = PyNone /\ d.first_arg # NoneS
                THEN ExtractConstant(d.first_arg) ELSE kw_name
    IN IF PyTruthy(name) THEN <<PyToolInfo(name, PyNone, origin)>> ELSE <<>>

\* _maybe_collect_from_decorators
MaybeCollectFromDecorators(n, docs, origin) ==
    IF n.decorator_list # <<>> /\ \E i \in 1..Len(n.decorator_list) :
                                      IsToolDecorator(n.decorator_list[i])
    THEN <<PyToolInfo(PyStr(<<n.name>>), docs[n.name], origin)>>
    ELSE <<>>

\* visit_Call on the decorators that are calls (generic_visit)
RECURSIVE VisitDecoratorCalls(_, _)
VisitDecoratorCalls(ds, origin) ==
    IF ds = <<>> THEN <<>>
    ELSE (IF Head(ds).called /\ LooksLikeToolConstructor(Head(ds))
          THEN ExtractToolFromConstructor(Head(ds), origin) ELSE <<>>)
         \o VisitDecoratorCalls(Tail(ds), origin)

\* the tool of a class with a tool base: lines 149-164
ClassTool(n, origin) ==
    LET name == IF n.name_value # NoneS THEN n.name_value[1] ELSE PyStr(<<n.name>>)
        description == IF n.description_value # NoneS THEN n.description_value[1]
                       ELSE n.docstring
    IN PyToolInfo(name, description, origin)

PyIdle ==
    /\ pmodule = <<>>
    /\ ppos = 0
    /\ docstrings = [n \in {"search", "EchoTool"} |-> PyNone]
    /\ ptools = <<>>
    /\ ppc = "idle"

\* MCPToolAnalyzer(module_path): tools = [], _docstrings = {} (a name that is
\* not a key maps to None, as _docstrings.get gives)
PyInit ==
    /\ pmodule \in SeqsUpTo(PyNodes, MaxNodes)
    /\ ppos = 1
    /\ docstrings = [n \in {"search", "EchoTool"} |-> PyNone]
    /\ ptools = <<>>
    /\ ppc = "visit"

\* visit_FunctionDef / visit_AsyncFunctionDef
VisitFunctionDef ==
    /\ ppc = "visit"
    /\ ppos <= Len(pmodule)
    /\ pmodule[ppos].node = "FunctionDef"
    /\ LET n == pmodule[ppos]
           docs == [docstrings EXCEPT ![n.name] = n.docstring]
       IN /\ docstrings' = docs
          /\ ptools' = ptools \o MaybeCollectFromDecorators(n, docs, ModulePath)
                              \o VisitDecoratorCalls(n.decorator_list, ModulePath)
    /\ ppos' = ppos + 1
    /\ UNCHANGED <<pmodule, ppc>>
    /\ UNCHANGED notPy

\* visit_ClassDef
VisitClassDef ==
    /\ ppc = "visit"
    /\ ppos <= Len(pmodule)
    /\ pmodule[ppos].node = "ClassDef"
    /\ LET n == pmodule[ppos]
       IN /\ docstrings' = [docstrings EXCEPT ![n.name] = n.docstring]
          /\ ptools' = IF n.tool_base THEN Append(ptools, ClassTool(n, ModulePath))
                       ELSE ptools
    /\ ppos' = ppos + 1
    /\ UNCHANGED <<pmodule, ppc>>
    /\ UNCHANGED notPy

\* analyzer.visit(tree) returns
VisitDone ==
    /\ ppc = "visit"
    /\ ppos > Len(pmodule)
    /\ ppc' = "visited"
    /\ UNCHANGED <<pmodule, ppos, docstrings, ptools>>
    /\ UNCHANGED notPy

PyNext ==
    \/ VisitFunctionDef
    \/ VisitClassDef
    \/ VisitDone

\* ========================================================================
\* The discovery engine run twice over one unchanged tree:
\* analyze_repository followed by deduplicate_tools
\* (src/mcp_tool_inspector.py:626-696), the files enumerated in one order.
\* ========================================================================

MaxEngineFiles == 2
EngineRuns == 2

EngineTool(n, d, path) == [name |-> n, description |-> d, origin |-> path]

\* what the detectors find in a file, before the origin is filled in
FileFindings ==
    {<<>>, <<[name |-> "echo", description |-> "None"]>>,
     <<[name |-> "add", description |-> "sum"]>>,
     <<[name |-> "echo", description |-> "None"], [name |-> "add", description |-> "sum"]>>,
     <<[name |-> "echo", description |-> "None"], [name |-> "echo", description |-> "again"]>>}

\* a file of the tree: skipped, raising in its analysis, or analysed
EngineFiles ==
    {[fate |-> f, findings |-> <<>>] : f \in {"skipped", "raises"}}
    \cup {[fate |-> "analysed", findings |-> fs] : fs \in FileFindings}

\* the ToolInfo list of the file at path p
FileTools(file, p) ==
    [k \in 1..Len(file.findings) |->
        EngineTool(file.findings[k].name, file.findings[k].description, p)]

\* Mutation of FreshSeen: the set of an earlier call is kept.
KeptSeen(previous) == previous

\* deduplicate_tools: seen = set()
FreshSeen(previous) == {}

\* analyze_repository: collected = []
FreshCollected(previous) == <<>>

\* the loop of deduplicate_tools from a given seen set: <<unique, seen>>
RECURSIVE DedupFrom(_, _)
DedupFrom(ts, seenNames) ==
    IF ts = <<>> THEN <<<<>>, seenNames>>
    ELSE IF IsUnseen(Head(ts), seenNames)
         THEN LET rest == DedupFrom(Tail(ts), seenNames \cup {Head(ts).name})
              IN <<<<Head(ts)>> \o rest[1], rest[2]>>
         ELSE DedupFrom(Tail(ts), seenNames)

\* the outcome of one run
RunReturned(ts) == [raised |-> FALSE, tools |-> ts]
RunRaised == [raised |-> TRUE, tools |-> <<>>]

EngineIdle ==
    /\ etree = <<>>
    /\ erun = 0
    /\ epos = 0
    /\ ecollected = <<>>
    /\ eseen = {}
    /\ eoutputs = <<>>
    /\ epc = "idle"

\* the first call of analyze_repository starts
EngineInit ==
    /\ etree \in SeqsUpTo(EngineFiles, MaxEngineFiles)
    /\ erun = 1
    /\ epos = 1
    /\ ecollected = FreshCollected(<<>>)
    /\ eseen = {}
    /\ eoutputs = <<>>
    /\ epc = "analyze"

\* a file that is skipped (path, unreadable, syntax error): continue
EngineSkipFile ==
    /\ epc = "analyze"
    /\ epos <= Len(etree)
    /\ etree[epos].fate = "skipped"
    /\ epos' = epos + 1
    /\ UNCHANGED <<etree, erun, ecollected, eseen, eoutputs, epc>>
    /\ UNCHANGED notEngine

\* collected.extend(...)
EngineAnalyzeFile ==
    /\ epc = "analyze"
    /\ epos <= Len(etree)
    /\ etree[epos].fate = "analysed"
    /\ ecollected' = ecollected \o FileTools(etree[epos], epos)
    /\ epos' = epos + 1
    /\ UNCHANGED <<etree, erun, eseen, eoutputs, epc>>
    /\ UNCHANGED notEngine

\* the analysis of a file raises: the run ends without a list
EngineRaise ==
    /\ epc = "analyze"
    /\ epos <= Len(etree)
    /\ etree[epos].fate = "raises"
    /\ eoutputs' = Append(eoutputs, RunRaised)
    /\ epc' = "ran"
    /\ UNCHANGED <<etree, erun, epos, ecollected, eseen>>
    /\ UNCHANGED notEngine

\* analyze_repository returns and deduplicate_tools runs on its list
EngineDeduplicate ==
    /\ epc = "analyze"
    /\ epos > Len(etree)
    /\ LET done == DedupFrom(ecollected, FreshSeen(eseen))
       IN /\ eoutputs' = Append(eoutputs, RunReturned(done[1]))
          /\ eseen' = done[2]
    /\ epc' = "ran"
    /\ UNCHANGED <<etree, erun, epos, ecollected>>
    /\ UNCHANGED notEngine

\* the engine is run again on the same tree
EngineRunAgain ==
    /\ epc = "ran"
    /\ erun < EngineRuns
    /\ erun' = erun + 1
    /\ epos' = 1
    /\ ecollected' = FreshCollected(ecollected)
    /\ epc' = "analyze"
    /\ UNCHANGED <<etree, eseen, eoutputs>>
    /\ UNCHANGED notEngine

\* the last run is over
EngineDone ==
    /\ epc = "ran"
    /\ erun = EngineRuns
    /\ epc' = "done"
    /\ UNCHANGED <<etree, erun, epos, ecollected, eseen, eoutputs>>
    /\ UNCHANGED notEngine

EngineNext ==
    \/ EngineSkipFile
    \/ EngineAnalyzeFile
    \/ EngineRaise
    \/ EngineDeduplicate
    \/ EngineRunAgain
    \/ EngineDone

\* ========================================================================
\* app.py: get_tools_from_cache, save_tools_to_cache, run_tool_inspector and
\* fetch_tools_for_repo (src/app.py:18-97).  The collection tools_cache is
\* the set of its documents; requests are served concurrently, each call of
\* fetch_tools_for_repo taking its steps on its own.  The result of an
\* inspector run is named by the number of the run: tools and raw_output of
\* run r are both r.  Time is counted in hours.
\* update_one(filter, update, upsert=True) is MongoDB's: the update of the
\* document is atomic, but the collection has no unique index on full_name,
\* so the query phase and the insert of an upsert are two steps, and
\* upserts whose query phases all found nothing each insert a document.
\* ========================================================================

MaxCalls == 2
MaxHours == 9
TickHours == 3

\* timedelta(hours=6)
TOOLS_CACHE_TTL == 6

CacheNames == {"o/a", "o/b"}

CacheDoc(name, tools_of, out, at) ==
    [full_name |-> name, tools |-> tools_of, raw_output |-> out, updated_at |-> at]

\* cache_collection.find_one({'full_name': full_name}): the matching documents
Matching(coll, name) == {d \in coll : d.full_name = name}

\* Mutation of FromCache: the age of the document is not looked at.
FromCacheAnyAge(doc, now) == Some([tools |-> doc.tools, raw_output |-> doc.raw_output])

\* get_tools_from_cache on a found document: (None, None) when it is older
\* than the TTL, else its tools and raw_output
FromCache(doc, now) ==
    IF now - doc.updated_at > TOOLS_CACHE_TTL THEN NoneS
    ELSE Some([tools |-> doc.tools, raw_output |-> doc.raw_output])

\* save_tools_to_cache: update_one(..., upsert=True) sets the fields of one
\* matching document when its query phase found one, or inserts a document
\* when it found none; the results are the possible collections
Upsert(coll, name, tools_of, out, now, found) ==
    IF found /\ Matching(coll, name) # {}
    THEN {(coll \ {d}) \cup {CacheDoc(name, tools_of, out, now)} : d \in Matching(coll, name)}
    ELSE {coll \cup {CacheDoc(name, tools_of, out, now)}}

\* Mutation of AfterFailure: the entry of the repository is evicted.
AfterFailureEvicting(coll, name) == coll \ Matching(coll, name)

\* the collection after run_tool_inspector raised in fetch_tools_for_repo:
\* the exception leaves the function before save_tools_to_cache
AfterFailure(coll, name) == coll

\* what run_tool_inspector raises: the script is missing, the subprocess
\* timed out, the exit status is not zero
InspectorErrors == {"FileNotFoundError", "TimeoutExpired", "RuntimeError"}


\* Mutation of ConsultsCache: force_refresh is ignored.
ConsultsCacheAlways(call) == TRUE

\* fetch_tools_for_repo: if not force_refresh
ConsultsCache(call) == ~call.force_refresh

\* a call of fetch_tools_for_repo: its arguments, where it is, the inspector
\* run it made (0: none), what it returned (0: nothing), the exception it
\* raised, and whether the query phase of its upsert found a document
Call(name, force) ==
    [full_name |-> name, force_refresh |-> force, pc |-> "called", fresh |-> 0,
     returned |-> 0, error |-> "None", found |-> FALSE]

CacheIdle ==
    /\ tools_cache = {}
    /\ calls = <<>>
    /\ runs = 0
    /\ utcnow = 0

CacheInit ==
    /\ tools_cache = {}
    /\ calls \in [1..MaxCalls -> {Call(n, f) : n \in CacheNames, f \in BOOLEAN}]
    /\ runs = 0
    /\ utcnow = 0

\* a non-forced call finds a document that is not older than the TTL and
\* returns it
CacheHit ==
    \E i \in 1..Len(calls) :
        /\ calls[i].pc = "called"
        /\ ConsultsCache(calls[i])
        /\ \E doc \in Matching(tools_cache, calls[i].full_name) :
              /\ FromCache(doc, utcnow) # NoneS
              /\ calls' = [calls EXCEPT ![i].pc = "returned",
                                        ![i].returned = FromCache(doc, utcnow)[1].tools]
        /\ UNCHANGED <<tools_cache, runs, utcnow>>
        /\ UNCHANGED notCache

\* a non-forced call finds no document, or one older than the TTL
CacheMiss ==
    \E i \in 1..Len(calls) :
        /\ calls[i].pc = "called"
        /\ ConsultsCache(calls[i])
        /\ \/ Matching(tools_cache, calls[i].full_name) = {}
           \/ \E doc \in Matching(tools_cache, calls[i].full_name) :
                 FromCache(doc, utcnow) = NoneS
        /\ calls' = [calls EXCEPT ![i].pc = "inspect"]
        /\ UNCHANGED <<tools_cache, runs, utcnow>>
        /\ UNCHANGED notCache

\* a forced call does not look at the cache
CacheBypass ==
    \E i \in 1..Len(calls) :
        /\ calls[i].pc = "called"
        /\ ~ConsultsCache(calls[i])
        /\ calls' = [calls EXCEPT ![i].pc = "inspect"]
        /\ UNCHANGED <<tools_cache, runs, utcnow>>
        /\ UNCHANGED notCache

\* run_tool_inspector returns the tools and the output of a new run
InspectorReturns ==
    \E i \in 1..Len(calls) :
        /\ calls[i].pc = "inspect"
        /\ runs' = runs + 1
        /\ calls' = [calls EXCEPT ![i].pc = "save", ![i].fresh = runs + 1]
        /\ UNCHANGED <<tools_cache, utcnow>>
        /\ UNCHANGED notCache

\* run_tool_inspector raises (script missing, timeout, non-zero exit):
\* fetch_tools_for_repo raises
InspectorRaises ==
    \E i \in 1..Len(calls) :
        /\ calls[i].pc = "inspect"
        /\ \E e \in InspectorErrors :
              calls' = [calls EXCEPT ![i].pc = "raised", ![i].error = e]
        /\ tools_cache' = AfterFailure(tools_cache, calls[i].full_name)
        /\ UNCHANGED <<runs, utcnow>>
        /\ UNCHANGED notCache

\* save_tools_to_cache: the query phase of update_one
CacheSaveQuery ==
    \E i \in 1..Len(calls) :
        /\ calls[i].pc = "save"
        /\ calls' = [calls EXCEPT ![i].pc = "write",
                                  ![i].found = Matching(tools_cache, calls[i].full_name) # {}]
        /\ UNCHANGED <<tools_cache, runs, utcnow>>
        /\ UNCHANGED notCache

\* save_tools_to_cache: the document is updated or inserted; then
\* return tools, raw_output
CacheSave ==
    \E i \in 1..Len(calls) :
        /\ calls[i].pc = "write"
        /\ tools_cache' \in Upsert(tools_cache, calls[i].full_name, calls[i].fresh,
                                   calls[i].fresh, utcnow, calls[i].found)
        /\ calls' = [calls EXCEPT ![i].pc = "returned", ![i].returned = calls[i].fresh]
        /\ UNCHANGED <<runs, utcnow>>
        /\ UNCHANGED notCache

\* time passes
CacheTick ==
    /\ calls # <<>>
    /\ utcnow + TickHours <= MaxHours
    /\ utcnow' = utcnow + TickHours
    /\ UNCHANGED <<tools_cache, calls, runs>>
    /\ UNCHANGED notCache

CacheNext ==
    \/ CacheHit
    \/ CacheMiss
    \/ CacheBypass
    \/ InspectorReturns
    \/ InspectorRaises
    \/ CacheSaveQuery
    \/ CacheSave
    \/ CacheTick

\* ========================================================================
\* analyze_repository: which files of the tree are analysed
\* (src/mcp_tool_inspector.py:20-39, 118-119, 626-682).  A path relative to
\* the root is the tuple of its parts, a part the tuple of its characters.
\* Every file that is analysed declares one tool.
\* ========================================================================

MaxPaths == 2

SKIP_DIR_NAMES ==
    {<<"n", "o", "d", "e", "_", "m", "o", "d", "u", "l", "e", "s">>,
     <<"d", "i", "s", "t">>,
     <<"b", "u", "i", "l", "d">>,
     <<"p", "u", "b", "l", "i", "c">>,
     <<"c", "o", "v", "e", "r", "a", "g", "e">>,
     <<".", "n", "e", "x", "t">>,
     <<"o", "u", "t">>,
     <<"_", "_", "p", "y", "c", "a", "c", "h", "e", "_", "_">>,
     <<".", "v", "e", "n", "v">>,
     <<"v", "e", "n", "v">>,
     <<"t", "m", "p">>,
     <<"t", "e", "m", "p">>,
     <<"f", "r", "o", "n", "t", "e", "n", "d">>,
     <<"l", "o", "c", "a", "l", "e", "s">>,
     <<"_", "_", "t", "e", "s", "t", "s", "_", "_">>,
     <<"t", "e", "s", "t", "s">>,
     <<"s", "p", "e", "c">>,
     <<"m", "o", "d", "e", "l", "s">>}

EndsWith(s, suffix) ==
    Len(s) >= Len(suffix) /\ SubSeq(s, Len(s) - Len(suffix) + 1, Len(s)) = suffix

\* Mutation of ShouldSkipPath: only the denylist is looked at.
ShouldSkipPathDenylistOnly(path) == \E i \in 1..Len(path) : path[i] \in SKIP_DIR_NAMES

\* _should_skip_path
ShouldSkipPath(path) ==
    \E i \in 1..Len(path) : StartsWith(path[i], <<".">>) \/ path[i] \in SKIP_DIR_NAMES

\* path.name
NameOf(path) == path[Len(path)]

\* the rglob patterns of the three loops
LoopPatterns ==
    <<{<<".", "p", "y">>},
      {<<".", "t", "s">>, <<".", "t", "s", "x">>, <<".", "j", "s">>, <<".", "j", "s", "x">>},
      {<<".", "g", "o">>}>>

\* root.rglob("*" + suffix) yields the path
Globbed(path, loop) == \E suffix \in LoopPatterns[loop] : EndsWith(NameOf(path), suffix)

\* path.name.endswith(".min.js") or path.name.endswith(".min.ts"), tested
\* in the second loop only
Minified(path, loop) ==
    loop = 2 /\ (EndsWith(NameOf(path), <<".", "m", "i", "n", ".", "j", "s">>)
                 \/ EndsWith(NameOf(path), <<".", "m", "i", "n", ".", "t", "s">>))

WalkDirs ==
    {<<>>, <<<<"s", "r", "c">>>>, <<<<".", "g", "i", "t", "h", "u", "b">>>>, <<<<"n", "o", "d", "e", "_", "m", "o", "d", "u", "l", "e", "s">>, <<"p", "k", "g">>>>,
     <<<<"s", "r", "c">>, <<"t", "e", "s", "t", "s">>>>, <<<<"T", "e", "s", "t", "s">>>>}

WalkFileNames ==
    {<<"a", ".", "p", "y">>, <<".", "a", ".", "p", "y">>, <<"b", ".", "t", "s">>, <<"b", ".", "m", "i", "n", ".", "j", "s">>,
     <<"b", ".", "m", "i", "n", ".", "t", "s">>, <<"c", ".", "g", "o">>, <<"d", ".", "t", "x", "t">>}

WalkPaths == {d \o <<f>> : d \in WalkDirs, f \in WalkFileNames}

\* the ToolInfo found in the file at path: origin = str(relative_path)
WalkTool(path) == [name |-> "echo", origin |-> path]

WalkIdle ==
    /\ wtree = <<>>
    /\ wloop = 0
    /\ wpos = 0
    /\ wcollected = <<>>
    /\ wpc = "idle"

\* the files of the tree, each path once; collected = []
WalkInit ==
    /\ wtree \in {t \in SeqsUpTo(WalkPaths, MaxPaths) :
                    \A i, j \in 1..Len(t) : i # j => t[i] # t[j]}
    /\ wloop = 1
    /\ wpos = 1
    /\ wcollected = <<>>
    /\ wpc = "walking"

\* the file is not in the list of this loop
WalkNotGlobbed ==
    /\ wpc = "walking"
    /\ wpos <= Len(wtree)
    /\ ~Globbed(wtree[wpos], wloop)
    /\ wpos' = wpos + 1
    /\ UNCHANGED <<wtree, wloop, wcollected, wpc>>
    /\ UNCHANGED notWalk

\* _should_skip_path(relative_path) or a minified name: continue
WalkSkip ==
    /\ wpc = "walking"
    /\ wpos <= Len(wtree)
    /\ Globbed(wtree[wpos], wloop)
    /\ ShouldSkipPath(wtree[wpos]) \/ Minified(wtree[wpos], wloop)
    /\ wpos' = wpos + 1
    /\ UNCHANGED <<wtree, wloop, wcollected, wpc>>
    /\ UNCHANGED notWalk

\* the file is read and analysed: collected.extend(...)
WalkCollect ==
    /\ wpc = "walking"
    /\ wpos <= Len(wtree)
    /\ Globbed(wtree[wpos], wloop)
    /\ ~ShouldSkipPath(wtree[wpos])
    /\ ~Minified(wtree[wpos], wloop)
    /\ wcollected' = Append(wcollected, WalkTool(wtree[wpos]))
    /\ wpos' = wpos + 1
    /\ UNCHANGED <<wtree, wloop, wpc>>
    /\ UNCHANGED notWalk

\* the next for loop starts
WalkNextLoop ==
    /\ wpc = "walking"
    /\ wpos > Len(wtree)
    /\ wloop < Len(LoopPatterns)
    /\ wloop' = wloop + 1
    /\ wpos' = 1
    /\ UNCHANGED <<wtree, wcollected, wpc>>
    /\ UNCHANGED notWalk

\* return collected
WalkReturn ==
    /\ wpc = "walking"
    /\ wpos > Len(wtree)
    /\ wloop = Len(LoopPatterns)
    /\ wpc' = "returned"
    /\ UNCHANGED <<wtree, wloop, wpos, wcollected>>
    /\ UNCHANGED notWalk

WalkNext ==
    \/ WalkNotGlobbed
    \/ WalkSkip
    \/ WalkCollect
    \/ WalkNextLoop
    \/ WalkReturn

\* ========================================================================
\* parse_repo_input (src/check_mcp_server/filter_mcp_servers.py:47-65)
\* ========================================================================

\* str.rstrip(chars): trailing characters that are in chars are removed
RECURSIVE RStripChars(_, _)
RStripChars(s, chars) ==
    IF s # <<>> /\ s[Len(s)] \in chars THEN RStripChars(SubSeq(s, 1, Len(s) - 1), chars)
    ELSE s

RECURSIVE LStripChars(_, _)
LStripChars(s, chars) ==
    IF s # <<>> /\ Head(s) \in chars THEN LStripChars(Tail(s), chars) ELSE s

\* str.strip(chars)
StripChars(s, chars) == RStripChars(LStripChars(s, chars), chars)

\* str.split(sep), sep a string
RECURSIVE SplitOn(_, _)
SplitOn(s, sep) ==
    IF ~Contains(s, sep) THEN <<s>>
    ELSE LET i == MinOf({k \in 1..(Len(s) - Len(sep) + 1) : SubSeq(s, k, k + Len(sep) - 1) = sep})
         IN <<SubSeq(s, 1, i - 1)>> \o SplitOn(SubSeq(s, i + Len(sep), Len(s)), sep)

TxtHttp == <<"h", "t", "t", "p">>
TxtDotGit == <<".", "g", "i", "t">>
TxtGithubCom == <<"g", "i", "t", "h", "u", "b", ".", "c", "o", "m", "/">>
TxtGithubUrl == <<"h", "t", "t", "p", "s", ":", "/", "/", "g", "i", "t", "h", "u", "b", ".", "c", "o", "m", "/">>

\* the characters of the argument of rstrip('.git')
DotGitChars == {TxtDotGit[i] : i \in 1..Len(TxtDotGit)}

parse_repo_input(input) ==
    IF StartsWith(input, TxtHttp)
    THEN LET stripped == RStripChars(input, DotGitChars)
             parts == SplitOn(stripped, TxtGithubCom)
         IN IF Len(parts) = 2 THEN StripChars(parts[2], {"/"})
            ELSE StripChars(stripped, {"/"})
    ELSE StripChars(input, {"/"})

Owners == {<<"o">>, <<"a", "c", "m", "e">>, <<"g", "i", "t">>}
RepoNames == {<<"r">>, <<"m", "c", "p">>, <<"d", "i", "g", "i", "t">>, <<"t", "o", "o", "l", "k", "i", "t">>, <<"a", ".", "b">>, <<"w", "e", "b", ".", "g", "i", "t", "2">>}

\* the ways a repository is written on the command line
InputForms == {"url", "url.git", "url/", "http_url", "full_name", "/full_name/", "full_name/"}

FullName(owner, repo) == owner \o <<"/">> \o repo

\* the text of an input
InputText(in) ==
    LET name == FullName(in.owner, in.repo) IN
    CASE in.form = "url" -> TxtGithubUrl \o name
      [] in.form = "url.git" -> TxtGithubUrl \o name \o TxtDotGit
      [] in.form = "url/" -> TxtGithubUrl \o name \o <<"/">>
      [] in.form = "http_url" -> <<"h", "t", "t", "p", ":", "/", "/", "g", "i", "t", "h", "u", "b", ".", "c", "o", "m", "/">> \o name
      [] in.form = "full_name" -> name
      [] in.form = "/full_name/" -> <<"/">> \o name \o <<"/">>
      [] in.form = "full_name/" -> name \o <<"/">>

RepoInputIdle ==
    /\ repo_input = [owner |-> <<>>, repo |-> <<>>, form |-> "None"]
    /\ repo_name = NoneS
    /\ ripc = "idle"

RepoInputInit ==
    /\ repo_input \in [owner : Owners, repo : RepoNames, form : InputForms]
    /\ repo_name = NoneS
    /\ ripc = "called"

\* full_name = parse_repo_input(args.repo)
ParseRepoInput ==
    /\ ripc = "called"
    /\ repo_name' = Some(parse_repo_input(InputText(repo_input)))
    /\ ripc' = "returned"
    /\ UNCHANGED repo_input
    /\ UNCHANGED notRepoInput

RepoInputNext == ParseRepoInput

\* ========================================================================
\* _split_top_level (src/mcp_tool_inspector.py:347-392)
\* ========================================================================

MaxPieces == 3

\* separator: str = ","
Separator == ","

\* Mutation of SplitDepths: only parentheses are counted.
SplitDepthsParenOnly(char, d) ==
    CASE char = "(" -> [d EXCEPT !.paren = @ + 1]
      [] char = ")" -> [d EXCEPT !.paren = IF @ - 1 > 0 THEN @ - 1 ELSE 0]
      [] OTHER -> d

\* the three depths after a character outside a string literal
SplitDepths(char, d) ==
    CASE char = "(" -> [d EXCEPT !.paren = @ + 1]
      [] char = ")" -> [d EXCEPT !.paren = IF @ - 1 > 0 THEN @ - 1 ELSE 0]
      [] char = "{" -> [d EXCEPT !.brace = @ + 1]
      [] char = "}" -> [d EXCEPT !.brace = IF @ - 1 > 0 THEN @ - 1 ELSE 0]
      [] char = "[" -> [d EXCEPT !.bracket = @ + 1]
      [] char = "]" -> [d EXCEPT !.bracket = IF @ - 1 > 0 THEN @ - 1 ELSE 0]
      [] OTHER -> d

NoDepth == [paren |-> 0, brace |-> 0, bracket |-> 0]

\* [part for part in parts if part]
NonEmptyParts(ps) == SelectSeq(ps, LAMBDA part : part # <<>>)

\* Pieces of text without comments: a name, a name after a blank, the
\* separator, a closing parenthesis without an opening one, a separator
\* nested in each kind of bracket pair and in two kinds at once, a
\* separator in a string, and a separator in a string after an escaped quote.
PlainPieces == {
    <<"a">>,
    <<" ", "b">>,
    <<Separator>>,
    <<")">>,
    <<"(", Separator, ")">>,
    <<"{", "x", Separator, "}">>,
    <<"[", Separator, "(", Separator, ")", "]">>,
    <<Apostrophe, Separator, Apostrophe>>,
    <<DoubleQuote, Backslash, DoubleQuote, Separator, DoubleQuote>> }

\* Comments: a block comment holding a separator, a line comment holding a
\* separator, a block comment holding an opening bracket, and a line comment
\* holding a quote character.
CommentPieces == {
    <<"/", "*", Separator, "*", "/">>,
    <<"/", "/", Separator, "\n">>,
    <<"/", "*", "(", "*", "/">>,
    <<"/", "/", Apostrophe, "\n">> }

SplitPieces == PlainPieces \cup CommentPieces

SplitIdle ==
    /\ pieces = <<>>
    /\ value = <<>>
    /\ vindex = 0
    /\ current = <<>>
    /\ split_parts = <<>>
    /\ depths = NoDepth
    /\ split_in_string = "None"
    /\ split_escape = FALSE
    /\ splitpc = "idle"

\* the function has been called: parts = []; current = []; depths = 0
SplitInit ==
    /\ pieces \in SeqsUpTo(SplitPieces, MaxPieces)
    /\ value = Concat(pieces)
    /\ vindex = 0
    /\ current = <<>>
    /\ split_parts = <<>>
    /\ depths = NoDepth
    /\ split_in_string = "None"
    /\ split_escape = FALSE
    /\ splitpc = "scan"

\* if in_string: the character is appended and the string state advances
SplitInString ==
    /\ splitpc = "scan"
    /\ vindex < Len(value)
    /\ split_in_string # "None"
    /\ current' = Append(current, CharAt(value, vindex))
    /\ LET st == StringStep(CharAt(value, vindex), split_in_string, split_escape)
       IN split_in_string' = st.in_string /\ split_escape' = st.escape
    /\ vindex' = vindex + 1
    /\ UNCHANGED <<pieces, value, split_parts, depths, splitpc>>
    /\ UNCHANGED notSplit

\* a quote character outside a string opens a string literal
SplitOpenString ==
    /\ splitpc = "scan"
    /\ vindex < Len(value)
    /\ split_in_string = "None"
    /\ CharAt(value, vindex) \in Quotes
    /\ split_in_string' = CharAt(value, vindex)
    /\ current' = Append(current, CharAt(value, vindex))
    /\ vindex' = vindex + 1
    /\ UNCHANGED <<pieces, value, split_parts, depths, split_escape, splitpc>>
    /\ UNCHANGED notSplit

\* the separator with the three depths at zero: the current part is closed
SplitAtSeparator ==
    /\ splitpc = "scan"
    /\ vindex < Len(value)
    /\ split_in_string = "None"
    /\ CharAt(value, vindex) \notin Quotes
    /\ depths' = SplitDepths(CharAt(value, vindex), depths)
    /\ CharAt(value, vindex) = Separator /\ depths' = NoDepth
    /\ split_parts' = Append(split_parts, Strip(current))
    /\ current' = <<>>
    /\ vindex' = vindex + 1
    /\ UNCHANGED <<pieces, value, split_in_string, split_escape, splitpc>>
    /\ UNCHANGED notSplit

\* any other character: the depths are counted and the character is appended
SplitAppend ==
    /\ splitpc = "scan"
    /\ vindex < Len(value)
    /\ split_in_string = "None"
    /\ CharAt(value, vindex) \notin Quotes
    /\ depths' = SplitDepths(CharAt(value, vindex), depths)
    /\ ~(CharAt(value, vindex) = Separator /\ depths' = NoDepth)
    /\ current' = Append(current, CharAt(value, vindex))
    /\ vindex' = vindex + 1
    /\ UNCHANGED <<pieces, value, split_parts, split_in_string, split_escape, splitpc>>
    /\ UNCHANGED notSplit

\* the loop is over: the last part is appended, the empty parts are dropped
SplitReturn ==
    /\ splitpc = "scan"
    /\ vindex >= Len(value)
    /\ split_parts' = NonEmptyParts(IF current # <<>>
                                    THEN Append(split_parts, Strip(current))
                                    ELSE split_parts)
    /\ splitpc' = "done"
    /\ UNCHANGED <<pieces, value, vindex, current, depths, split_in_string, split_escape>>
    /\ UNCHANGED notSplit

SplitNext ==
    \/ SplitInString
    \/ SplitOpenString
    \/ SplitAtSeparator
    \/ SplitAppend
    \/ SplitReturn

\* ========================================================================
\* MCPToolAnalyzer._extract_tool_from_registry_call
\* (src/mcp_tool_inspector.py:245-285), on a call that visit_Call took for a
\* registry registration, such as server.register(...).
\* ========================================================================

MaxKeywords == 3

\* an argument expression: a constant, a name, or a call (of the shape of a
\* called decorator: a name or an attribute, an optional name= keyword and
\* an optional first positional argument)
NoCall == Decorator("Name", "", FALSE, NoneS, NoneS)
RegConst(v) == [node |-> "Constant", value |-> v, id |-> "", call |-> NoCall]
RegName(id) == [node |-> "Name", value |-> PyNone, id |-> id, call |-> NoCall]
RegCall(c) == [node |-> "Call", value |-> PyNone, id |-> "", call |-> c]

\* ast.keyword(arg, value)
Keyword(arg, v) == [arg |-> arg, value |-> v]

RegKeywords ==
    {Keyword("name", RegConst(PyStr(<<"outer">>))),
     Keyword("name", RegName("n")),
     Keyword("title", RegConst(PyStr(<<"Title">>))),
     Keyword("label", RegConst(PyStr(<<"Label">>))),
     Keyword("description", RegConst(PyStr(<<"d">>))),
     Keyword("tool", RegCall(Decorator("Name", "Tool", TRUE, Some(PyStr(<<"inner">>)), NoneS))),
     Keyword("tool", RegCall(Decorator("Attribute", "Tool", TRUE, NoneS,
                                       Some(PyStr(<<"inner">>))))),
     Keyword("tool", RegCall(Decorator("Name", "Tool", TRUE, NoneS, NoneS))),
     Keyword("tool", RegCall(Decorator("Name", "make", TRUE, Some(PyStr(<<"made">>)), NoneS))),
     Keyword("tool_obj", RegCall(Decorator("Name", "Tool", TRUE, Some(PyStr(<<"other">>)),
                                           NoneS)))}

\* node.keywords: no keyword is repeated
KeywordLists ==
    {ks \in SeqsUpTo(RegKeywords, MaxKeywords) :
        \A i, j \in 1..Len(ks) : i # j => ks[i].arg # ks[j].arg}

\* node.args
RegArgs ==
    {<<>>, <<RegConst(PyStr(<<"pos">>))>>, <<RegName("handler")>>,
     <<RegConst(PyStr(<<"pos">>)), RegConst(PyStr(<<"pdesc">>))>>}

\* self._docstrings.get(name): handler was visited before the call
RegDocstring(id) == IF id = "handler" THEN PyStr(<<"Handles.">>) ELSE PyNone

\* _extract_constant on an argument expression
RegExtractConstant(v) ==
    IF v.node = "Constant" /\ v.value.type = "str" THEN v.value ELSE PyNone

\* _callable_name on an argument expression
RegCallableName(v) == IF v.node = "Name" THEN PyStr(<<v.id>>) ELSE PyNone

\* the locals of the keyword loop: name, description, and the value returned
\* from inside the loop, if any
RegLocals(n, d, r) == [name |-> n, description |-> d, returned |-> r]

\* Mutation of RegistryKeyword: the nested constructor is looked at only when
\* no name has been found yet.
RegistryKeywordOuterFirst(kw, st, origin) ==
    CASE kw.arg = "name" -> [st EXCEPT !.name = RegExtractConstant(kw.value)]
      [] kw.arg = "description" -> [st EXCEPT !.description = RegExtractConstant(kw.value)]
      [] kw.arg \in {"title", "label"} /\ st.name = PyNone ->
            [st EXCEPT !.name = RegExtractConstant(kw.value)]
      [] kw.arg \in {"tool", "tool_obj"} /\ st.name = PyNone /\ kw.value.node = "Call"
            /\ LooksLikeToolConstructor(kw.value.call) ->
            [st EXCEPT !.returned = ExtractToolFromConstructor(kw.value.call, origin)]
      [] OTHER -> st

\* one iteration of for kw in node.keywords
RegistryKeyword(kw, st, origin) ==
    CASE kw.arg = "name" -> [st EXCEPT !.name = RegExtractConstant(kw.value)]
      [] kw.arg = "description" -> [st EXCEPT !.description = RegExtractConstant(kw.value)]
      [] kw.arg \in {"title", "label"} /\ st.name = PyNone ->
            [st EXCEPT !.name = RegExtractConstant(kw.value)]
      [] kw.arg \in {"tool", "tool_obj"} /\ kw.value.node = "Call"
            /\ LooksLikeToolConstructor(kw.value.call) ->
            [st EXCEPT !.returned = ExtractToolFromConstructor(kw.value.call, origin)]
      [] OTHER -> st

\* the positional heuristics, lines 266-281: the name and the description
RegistryPositional(args, description) ==
    LET potential_name == RegExtractConstant(args[1])
        potential_callable == RegCallableName(args[1])
        name == IF PyTruthy(potential_name) THEN potential_name
                ELSE IF PyTruthy(potential_callable) THEN potential_callable
                ELSE PyNone
        d1 == IF ~PyTruthy(potential_name) /\ PyTruthy(potential_callable)
                 /\ description = PyNone
              THEN RegDocstring(args[1].id) ELSE description
        d2 == IF Len(args) > 1 /\ PyTruthy(RegExtractConstant(args[2]))
              THEN RegExtractConstant(args[2]) ELSE d1
    IN [name |-> name, description |-> d2]

RegistryIdle ==
    /\ reg_call = [keywords |-> <<>>, args |-> <<>>]
    /\ reg_index = 0
    /\ reg_name = PyNone
    /\ reg_description = PyNone
    /\ reg_info = <<>>
    /\ regpc = "idle"

\* the function has been called: name = None; description = None
RegistryInit ==
    /\ reg_call \in [keywords : KeywordLists, args : RegArgs]
    /\ reg_index = 1
    /\ reg_name = PyNone
    /\ reg_description = PyNone
    /\ reg_info = <<>>
    /\ regpc = "keywords"

\* for kw in node.keywords: one keyword; a nested constructor that gives a
\* ToolInfo ends the call
RegistryLoop ==
    /\ regpc = "keywords"
    /\ reg_index <= Len(reg_call.keywords)
    /\ LET st == RegistryKeyword(reg_call.keywords[reg_index],
                                 RegLocals(reg_name, reg_description, <<>>), ModulePath)
       IN /\ reg_name' = st.name
          /\ reg_description' = st.description
          /\ reg_info' = st.returned
          /\ regpc' = IF st.returned # <<>> THEN "returned" ELSE "keywords"
    /\ reg_index' = reg_index + 1
    /\ UNCHANGED reg_call
    /\ UNCHANGED notRegistry

\* if name: after the loop, the keywords gave a name
RegistryFromKeywords ==
    /\ regpc = "keywords"
    /\ reg_index > Len(reg_call.keywords)
    /\ PyTruthy(reg_name)
    /\ reg_info' = <<PyToolInfo(reg_name, reg_description, ModulePath)>>
    /\ regpc' = "returned"
    /\ UNCHANGED <<reg_call, reg_index, reg_name, reg_description>>
    /\ UNCHANGED notRegistry

\* the keywords gave no name: the positional arguments are tried
RegistryFromArgs ==
    /\ regpc = "keywords"
    /\ reg_index > Len(reg_call.keywords)
    /\ ~PyTruthy(reg_name)
    /\ LET st == IF reg_call.args # <<>>
                 THEN RegistryPositional(reg_call.args, reg_description)
                 ELSE [name |-> reg_name, description |-> reg_description]
       IN /\ reg_name' = st.name
          /\ reg_description' = st.description
          /\ reg_info' = IF PyTruthy(st.name)
                         THEN <<PyToolInfo(st.name, st.description, ModulePath)>>
                         ELSE <<>>
    /\ regpc' = "returned"
    /\ UNCHANGED <<reg_call, reg_index>>
    /\ UNCHANGED notRegistry

RegistryNext ==
    \/ RegistryLoop
    \/ RegistryFromKeywords
    \/ RegistryFromArgs

\* ========================================================================
\* filter_mcp_servers.py main (lines 96-198): runs in append mode (without
\* --overwrite) over one output file, each run in CSV mode or with --repo.
\* A record of the output file is taken by its full_name.
\* ========================================================================

MaxRuns == 3
MaxRows == 2

FilterNames == {"o/r", "o/s"}

\* the records of a result list
FilterRecord(full_name) == [full_name |-> full_name]

\* the command lines: --repo NAME, or a CSV file with an optional --limit
\* (0 when absent)
RunArgs ==
    {[mode |-> "repo", repo |-> n, rows |-> <<>>, limit |-> 0] : n \in FilterNames}
    \cup {[mode |-> "csv", repo |-> "", rows |-> rows, limit |-> l] :
            rows \in SeqsUpTo(FilterNames, MaxRows), l \in {0, 1}}

NoArgs == [mode |-> "None", repo |-> "", rows |-> <<>>, limit |-> 0]

\* repositories[:args.limit] if args.limit
Limited(rows, limit) ==
    IF limit # 0 /\ limit < Len(rows) THEN SubSeq(rows, 1, limit) ELSE rows

\* the rows of the CSV file that are not in existing_repos, in order
NotYetVerified(rows, existing) == SelectSeq(rows, LAMBDA n : n \notin existing)

\* the orders in which the results of a run arrive: one per repository, in
\* the order of the list when the run is sequential, in any order when the
\* repositories are processed in parallel
ResultOrders(repos, parallel) ==
    IF ~parallel THEN {[i \in 1..Len(repos) |-> FilterRecord(repos[i])]}
    ELSE {[i \in 1..Len(repos) |-> FilterRecord(repos[p[i]])] :
            p \in {q \in [1..Len(repos) -> 1..Len(repos)] :
                      \A i, j \in 1..Len(repos) : i # j => q[i] # q[j]}}

FilterIdle ==
    /\ output_json = <<>>
    /\ run_args = NoArgs
    /\ existing_results = <<>>
    /\ existing_repos = {}
    /\ run_repositories = <<>>
    /\ run_results = <<>>
    /\ runs_done = 0
    /\ runpc = "idle"

\* no output file yet, no run started
FilterInit ==
    /\ output_json = <<>>
    /\ run_args = NoArgs
    /\ existing_results = <<>>
    /\ existing_repos = {}
    /\ run_repositories = <<>>
    /\ run_results = <<>>
    /\ runs_done = 0
    /\ runpc = "shell"

\* a run starts and loads the existing results (lines 110-123)
FilterLoad ==
    /\ runpc = "shell"
    /\ runs_done < MaxRuns
    /\ run_args' \in RunArgs
    /\ existing_results' = output_json
    /\ existing_repos' = {output_json[i].full_name : i \in 1..Len(output_json)}
    /\ run_repositories' = <<>>
    /\ run_results' = <<>>
    /\ runpc' = "loaded"
    /\ UNCHANGED <<output_json, runs_done>>
    /\ UNCHANGED notFilter

\* single repository mode (lines 126-130)
FilterSelectRepo ==
    /\ runpc = "loaded"
    /\ run_args.mode = "repo"
    /\ run_repositories' = <<run_args.repo>>
    /\ runpc' = "selected"
    /\ UNCHANGED <<output_json, run_args, existing_results, existing_repos, run_results,
                   runs_done>>
    /\ UNCHANGED notFilter

\* CSV mode (lines 131-145)
FilterSelectCsv ==
    /\ runpc = "loaded"
    /\ run_args.mode = "csv"
    /\ run_repositories' = Limited(NotYetVerified(run_args.rows, existing_repos),
                                   run_args.limit)
    /\ runpc' = "selected"
    /\ UNCHANGED <<output_json, run_args, existing_results, existing_repos, run_results,
                   runs_done>>
    /\ UNCHANGED notFilter

\* if not repositories: return (lines 147-149)
FilterNothingToDo ==
    /\ runpc = "selected"
    /\ run_repositories = <<>>
    /\ runs_done' = runs_done + 1
    /\ runpc' = "shell"
    /\ UNCHANGED <<output_json, run_args, existing_results, existing_repos,
                   run_repositories, run_results>>
    /\ UNCHANGED notFilter

\* the repositories are processed (lines 151-184)
FilterProcess ==
    /\ runpc = "selected"
    /\ run_repositories # <<>>
    /\ run_results' \in ResultOrders(run_repositories,
                                     Len(run_repositories) > 1 /\ run_args.mode # "repo")
    /\ runpc' = "processed"
    /\ UNCHANGED <<output_json, run_args, existing_results, existing_repos,
                   run_repositories, runs_done>>
    /\ UNCHANGED notFilter

\* all_results = existing_results + results is written (lines 186-198)
FilterSave ==
    /\ runpc = "processed"
    /\ output_json' = existing_results \o run_results
    /\ runs_done' = runs_done + 1
    /\ runpc' = "shell"
    /\ UNCHANGED <<run_args, existing_results, existing_repos, run_repositories, run_results>>
    /\ UNCHANGED notFilter

FilterNext ==
    \/ FilterLoad
    \/ FilterSelectRepo
    \/ FilterSelectCsv
    \/ FilterNothingToDo
    \/ FilterProcess
    \/ FilterSave

\* ========================================================================
\* Specifications
\* ========================================================================

DedupSpecInit ==
    /\ DedupInit
    /\ VerifyIdle /\ ReportIdle /\ ExtractIdle /\ BatchIdle
    /\ ScannerIdle /\ AnalyzeIdle /\ TsIdle /\ PyIdle
    /\ EngineIdle /\ CacheIdle /\ WalkIdle /\ RepoInputIdle
    /\ SplitIdle /\ RegistryIdle /\ FilterIdle
DedupSpec == DedupSpecInit /\ [][DedupNext]_vars

VerifySpecInit ==
    /\ VerifyInit
    /\ DedupIdle /\ ReportIdle /\ ExtractIdle /\ BatchIdle
    /\ ScannerIdle /\ AnalyzeIdle /\ TsIdle /\ PyIdle
    /\ EngineIdle /\ CacheIdle /\ WalkIdle /\ RepoInputIdle
    /\ SplitIdle /\ RegistryIdle /\ FilterIdle
VerifySpec == VerifySpecInit /\ [][VerifyNext]_vars

ReportSpecInit ==
    /\ ReportInit
    /\ DedupIdle /\ VerifyIdle /\ ExtractIdle /\ BatchIdle
    /\ ScannerIdle /\ AnalyzeIdle /\ TsIdle /\ PyIdle
    /\ EngineIdle /\ CacheIdle /\ WalkIdle /\ RepoInputIdle
    /\ SplitIdle /\ RegistryIdle /\ FilterIdle
ReportSpec == ReportSpecInit /\ [][ReportNext]_vars

ExtractSpecInit ==
    /\ ExtractInit
    /\ DedupIdle /\ VerifyIdle /\ ReportIdle /\ BatchIdle
    /\ ScannerIdle /\ AnalyzeIdle /\ TsIdle /\ PyIdle
    /\ EngineIdle /\ CacheIdle /\ WalkIdle /\ RepoInputIdle
    /\ SplitIdle /\ RegistryIdle /\ FilterIdle
ExtractSpec == ExtractSpecInit /\ [][ExtractNext]_vars

BatchSpecInit ==
    /\ BatchInit
    /\ DedupIdle /\ VerifyIdle /\ ReportIdle /\ ExtractIdle
    /\ ScannerIdle /\ AnalyzeIdle /\ TsIdle /\ PyIdle
    /\ EngineIdle /\ CacheIdle /\ WalkIdle /\ RepoInputIdle
    /\ SplitIdle /\ RegistryIdle /\ FilterIdle
BatchSpec == BatchSpecInit /\ [][BatchNext]_vars

ScannerSpecInit ==
    /\ ScannerInit
    /\ DedupIdle /\ VerifyIdle /\ ReportIdle /\ ExtractIdle
    /\ BatchIdle /\ AnalyzeIdle /\ TsIdle /\ PyIdle
    /\ EngineIdle /\ CacheIdle /\ WalkIdle /\ RepoInputIdle
    /\ SplitIdle /\ RegistryIdle /\ FilterIdle
ScannerSpec == ScannerSpecInit /\ [][ScannerNext]_vars

AnalyzeSpecInit ==
    /\ AnalyzeInit
    /\ DedupIdle /\ VerifyIdle /\ ReportIdle /\ ExtractIdle
    /\ BatchIdle /\ ScannerIdle /\ TsIdle /\ PyIdle
    /\ EngineIdle /\ CacheIdle /\ WalkIdle /\ RepoInputIdle
    /\ SplitIdle /\ RegistryIdle /\ FilterIdle
AnalyzeSpec == AnalyzeSpecInit /\ [][AnalyzeNext]_vars

TsSpecInit ==
    /\ TsInit
    /\ DedupIdle /\ VerifyIdle /\ ReportIdle /\ ExtractIdle
    /\ BatchIdle /\ ScannerIdle /\ AnalyzeIdle /\ PyIdle
    /\ EngineIdle /\ CacheIdle /\ WalkIdle /\ RepoInputIdle
    /\ SplitIdle /\ RegistryIdle /\ FilterIdle
TsSpec == TsSpecInit /\ [][TsNext]_vars

PySpecInit ==
    /\ PyInit
    /\ DedupIdle /\ VerifyIdle /\ ReportIdle /\ ExtractIdle
    /\ BatchIdle /\ ScannerIdle /\ AnalyzeIdle /\ TsIdle
    /\ EngineIdle /\ CacheIdle /\ WalkIdle /\ RepoInputIdle
    /\ SplitIdle /\ RegistryIdle /\ FilterIdle
PySpec == PySpecInit /\ [][PyNext]_vars

EngineSpecInit ==
    /\ EngineInit
    /\ DedupIdle /\ VerifyIdle /\ ReportIdle /\ ExtractIdle
    /\ BatchIdle /\ ScannerIdle /\ AnalyzeIdle /\ TsIdle
    /\ PyIdle /\ CacheIdle /\ WalkIdle /\ RepoInputIdle
    /\ SplitIdle /\ RegistryIdle /\ FilterIdle
EngineSpec == EngineSpecInit /\ [][EngineNext]_vars

CacheSpecInit ==
    /\ CacheInit
    /\ DedupIdle /\ VerifyIdle /\ ReportIdle /\ ExtractIdle
    /\ BatchIdle /\ ScannerIdle /\ AnalyzeIdle /\ TsIdle
    /\ PyIdle /\ EngineIdle /\ WalkIdle /\ RepoInputIdle
    /\ SplitIdle /\ RegistryIdle /\ FilterIdle
CacheSpec == CacheSpecInit /\ [][CacheNext]_vars

WalkSpecInit ==
    /\ WalkInit
    /\ DedupIdle /\ VerifyIdle /\ ReportIdle /\ ExtractIdle
    /\ BatchIdle /\ ScannerIdle /\ AnalyzeIdle /\ TsIdle
    /\ PyIdle /\ EngineIdle /\ CacheIdle /\ RepoInputIdle
    /\ SplitIdle /\ RegistryIdle /\ FilterIdle
WalkSpec == WalkSpecInit /\ [][WalkNext]_vars

RepoInputSpecInit ==
    /\ RepoInputInit
    /\ DedupIdle /\ VerifyIdle /\ ReportIdle /\ ExtractIdle
    /\ BatchIdle /\ ScannerIdle /\ AnalyzeIdle /\ TsIdle
    /\ PyIdle /\ EngineIdle /\ CacheIdle /\ WalkIdle
    /\ SplitIdle /\ RegistryIdle /\ FilterIdle
RepoInputSpec == RepoInputSpecInit /\ [][RepoInputNext]_vars

SplitSpecInit ==
    /\ SplitInit
    /\ DedupIdle /\ VerifyIdle /\ ReportIdle /\ ExtractIdle
    /\ BatchIdle /\ ScannerIdle /\ AnalyzeIdle /\ TsIdle
    /\ PyIdle /\ EngineIdle /\ CacheIdle /\ WalkIdle
    /\ RepoInputIdle /\ RegistryIdle /\ FilterIdle
SplitSpec == SplitSpecInit /\ [][SplitNext]_vars

RegistrySpecInit ==
    /\ RegistryInit
    /\ DedupIdle /\ VerifyIdle /\ ReportIdle /\ ExtractIdle
    /\ BatchIdle /\ ScannerIdle /\ AnalyzeIdle /\ TsIdle
    /\ PyIdle /\ EngineIdle /\ CacheIdle /\ WalkIdle
    /\ RepoInputIdle /\ SplitIdle /\ FilterIdle
RegistrySpec == RegistrySpecInit /\ [][RegistryNext]_vars

FilterSpecInit ==
    /\ FilterInit
    /\ DedupIdle /\ VerifyIdle /\ ReportIdle /\ ExtractIdle
    /\ BatchIdle /\ ScannerIdle /\ AnalyzeIdle /\ TsIdle
    /\ PyIdle /\ EngineIdle /\ CacheIdle /\ WalkIdle
    /\ RepoInputIdle /\ SplitIdle /\ RegistryIdle
FilterSpec == FilterSpecInit /\ [][FilterNext]_vars

\* _extract_balanced_segment run to its end: the while loop is a sequential
\* loop, so a step that is enabled is eventually taken.
ExtractFairSpec == ExtractSpecInit /\ [][ExtractNext]_vars /\ WF_vars(ExtractNext)

\* ========================================================================
\* Claims
\* ========================================================================

NamesOf(s) == {s[i].name : i \in 1..Len(s)}

\* index of the first record of s named n
FirstIndex(s, n) ==
    CHOOSE i \in 1..Len(s) : s[i].name = n /\ \A j \in 1..(i - 1) : s[j].name # n

\* C1: when deduplicate_tools returns, its result holds exactly one record
\* per distinct name of the input (names compared exactly, so names that
\* differ in case only are both kept), each result record is the first
\* input record with that name, unchanged, and the result is in
\* first-occurrence order; the pass never looks back (dpos only advances).
C1_DedupFirstOccurrence ==
    /\ dpc = "done" =>
        /\ NamesOf(unique) = NamesOf(tools)
        /\ \A i, j \in 1..Len(unique) : i # j => unique[i].name # unique[j].name
        /\ \A i \in 1..Len(unique) : unique[i] = tools[FirstIndex(tools, unique[i].name)]
        /\ \A i, j \in 1..Len(unique) :
              i < j => FirstIndex(tools, unique[i].name) < FirstIndex(tools, unique[j].name)
    /\ dpc = "loop" => Len(unique) <= dpos - 1

\* C1 witness: a finished run whose input repeated a name with another
\* description and origin, and held two names differing in case only.
C1_Witness ==
    /\ dpc = "done"
    /\ \E i, j \in 1..Len(tools) :
          /\ i < j
          /\ tools[i].name = tools[j].name
          /\ tools[i].description # tools[j].description
          /\ tools[i].origin # tools[j].origin
    /\ {"search", "Search"} \subseteq NamesOf(unique)
    /\ Len(unique) = 2

High == [confidence |-> "high", is_mcp |-> TRUE]
Medium == [confidence |-> "medium", is_mcp |-> TRUE]
Low == [confidence |-> "low", is_mcp |-> FALSE]

\* a file that contributes server-declaration evidence / registration evidence
ServerSignal(f) == f.supported /\ f.readable /\ f.server /\ ~f.client
RegistrationSignal(f) == f.supported /\ f.readable /\ f.reg

\* C2: the record verify_mcp_server returns is decided by the two
\* accumulated flags alone: both give high/true, exactly one gives
\* medium/true, none gives low/false (so two signals never rate lower than
\* one); a tree with neither signal in any file is low/not a server, and a
\* tree with a server import and no registration is medium/server.
C2_ConfidenceTable ==
    vpc = "done" =>
        /\ (has_imports /\ has_decorators) => vresult = High
        /\ (has_imports /\ ~has_decorators) => vresult = Medium
        /\ (~has_imports /\ has_decorators) => vresult = Medium
        /\ (~has_imports /\ ~has_decorators) => vresult = Low
        /\ (\A i \in 1..Len(vfiles) : ~ServerSignal(vfiles[i]) /\ ~RegistrationSignal(vfiles[i]))
              => vresult = Low
        /\ ((\E i \in 1..Len(vfiles) : ServerSignal(vfiles[i]))
              /\ (\A i \in 1..Len(vfiles) : ~RegistrationSignal(vfiles[i])))
              => vresult = Medium

\* C2 witness: a finished walk with registration evidence only, rated medium.
C2_Witness ==
    /\ vpc = "done"
    /\ ~has_imports
    /\ has_decorators
    /\ vresult = Medium

\* a visited file matching a server pattern and a client pattern
BothPatterns(i) ==
    /\ i < vpos
    /\ vfiles[i].supported /\ vfiles[i].readable
    /\ vfiles[i].server /\ vfiles[i].client

\* C10 as stated: a file matching both a server-declaration pattern and a
\* client-only pattern never appears in evidence_files (and does not set the
\* server-declaration flag).
C10_BothExcludedFromEvidence ==
    \A i \in 1..Len(vfiles) : BothPatterns(i) => ~InSeq(i, mcp_files)

\* C10 amended: a file matching both a server-declaration pattern and a
\* client-only pattern does not set the server-declaration flag (the flag is
\* set only when some visited file matches a server pattern and no client
\* pattern), and it appears in evidence_files exactly when it also matches a
\* registration pattern.
C10_BothExcludedFromImports ==
    /\ has_imports => \E i \in 1..Len(vfiles) : i < vpos /\ ServerSignal(vfiles[i])
    /\ \A i \in 1..Len(vfiles) :
          BothPatterns(i) => (InSeq(i, mcp_files) <=> vfiles[i].reg)

\* C10 witness: the walk is over, a file matching both kinds of pattern (and
\* no registration pattern) was visited, the flag is unset and no evidence
\* file is listed.
C10_Witness ==
    /\ vpc = "done"
    /\ \E i \in 1..Len(vfiles) : BothPatterns(i) /\ ~vfiles[i].reg
    /\ ~has_imports
    /\ mcp_files = <<>>

\* the records a faithful parse of the report of ts gives
ExpectedParse(ts) ==
    [i \in 1..Len(ts) |->
        [name |-> ts[i].name, description |-> ts[i].description, origin |-> Some(ts[i].origin)]]

\* C3 as stated: for every ToolInfo list, parse_tools_output applied to the
\* text of format_results gives back the same {name, description, origin}
\* records.
C3_RoundTripEveryList ==
    rpc = "done" => parsed[1] = ExpectedParse(rtools)

\* a string of one line without leading or trailing whitespace
SingleLineTrimmed(s) == ~Contains(s, <<"\n">>) /\ Strip(s) = s

\* a description line after the first that the parser takes as text
PlainContinuation(line) ==
    /\ Strip(line) # TxtHeader
    /\ ~StartsWith(Strip(line), TxtName)
    /\ ~StartsWith(line, TxtDescriptionIndented)
    /\ ~StartsWith(line, TxtDeclaredInIndented)

PlainDescription(d) ==
    \/ d = NoneS
    \/ /\ d[1] # <<>>
       /\ Strip(d[1]) = d[1]
       /\ LET ls == Split(d[1], "\n")
          IN /\ RStrip(ls[1]) = ls[1]
             /\ \A i \in 2..Len(ls) : PlainContinuation(ls[i])

PlainTool(t) ==
    /\ SingleLineTrimmed(t.name) /\ ~Contains(t.name, TxtName)
    /\ SingleLineTrimmed(t.origin) /\ ~Contains(t.origin, TxtDeclaredIn)
    /\ PlainDescription(t.description)

\* C3 amended: the round trip gives back the same records for every list
\* whose names and origins are single trimmed lines (not containing
\* "- Name:" resp. "Declared in:") and whose descriptions are absent, or
\* non-empty and trimmed, with a first line that does not end in whitespace
\* and no later line that starts with "  Description:" or "  Declared in:",
\* or that, trimmed, starts with "- Name:" or is "Discovered MCP tools:".
C3_RoundTripPlainLists ==
    (rpc = "done" /\ \A i \in 1..Len(rtools) : PlainTool(rtools[i]))
        => parsed[1] = ExpectedParse(rtools)

\* C3 witness: a parsed report of two plain tools, one with a description of
\* several lines (with a paragraph break), one without description.
C3_Witness ==
    /\ rpc = "done"
    /\ Len(rtools) = 2
    /\ \A i \in 1..2 : PlainTool(rtools[i])
    /\ rtools[1].description = Some(<<"h", "i", "\n", "\n", "y", "o">>)
    /\ rtools[2].description = NoneS
    /\ rtools[1].name # rtools[2].name
    /\ parsed[1] = ExpectedParse(rtools)

\* C4: called at an opening character of a well-formed bracket expression
\* (nested brackets, string literals in any of the three quote characters
\* holding bracket characters, escaped quotes and comment-like text),
\* _extract_balanced_segment returns exactly the text strictly between that
\* character and its matching closing character; when the source ends
\* before the depth is back to zero it returns None; it never raises.
C4_BalancedSegment ==
    /\ xresult # ResultRaised
    /\ xpc = "done" =>
        /\ xcase.kind = "full" => xresult = ResultSegment(xcase.interior)
        /\ xcase.kind = "truncated" => xresult = ResultNone

\* C4 witness: a finished extraction of an interior with a nested pair and
\* a string literal holding an escaped quote followed by a closing bracket.
C4_Witness ==
    /\ xpc = "done"
    /\ xcase.kind = "full"
    /\ Contains(xcase.interior, <<open_char, "a">>)
    /\ Contains(xcase.interior, <<Backslash, DoubleQuote, close_char>>)
    /\ xresult = ResultSegment(xcase.interior)
    /\ Len(source) > start_index + Len(xcase.interior) + 2

\* ------------------------------------------------------------------------
\* Parallel batch of filter_mcp_servers
\* ------------------------------------------------------------------------

\* the call of process_repository for task i returned an error record or
\* raised
Failed(i) == future[i].state = "raised" \/ future[i].result.error # "None"

\* positions of results that carry full_name n and (e) an error / no error
RecordsOf(n, e) ==
    {k \in 1..Len(results) : results[k].full_name = n /\ (results[k].error # "None") = e}

\* collected tasks submitted for full_name n that failed (e) / did not fail
TasksOf(n, e) == {i \in yielded : repositories[i] = n /\ Failed(i) = e}

\* C5: in the parallel batch, whatever order the futures complete in, the
\* results list holds for every collected task exactly one record with that
\* task's own full_name (counted per full_name, so rows that repeat a name
\* get one record each), an error record exactly for the tasks that failed
\* or raised; the batch is done only when every submitted task is collected,
\* and as long as no clone hangs a failed or raised task never stops the
\* others from being processed.
C5_OneRecordPerRepository ==
    /\ \A n \in FullNames, e \in BOOLEAN :
          Cardinality(RecordsOf(n, e)) = Cardinality(TasksOf(n, e))
    /\ Len(results) = Cardinality(yielded)
    /\ bpc = "done" => yielded = Tasks
    /\ (\A i \in Tasks : future[i].state # "hung") => (bpc = "done" \/ ENABLED BatchNext)

\* the batch is done, the records arrived out of submission order, one task
\* raised, one returned an error record and one succeeded
C5_Witness ==
    /\ bpc = "done"
    /\ \E k \in 1..Len(results) : results[k].full_name # repositories[k]
    /\ \E i \in Tasks : future[i].state = "raised"
    /\ \E i \in Tasks : future[i].state = "finished" /\ future[i].result.error = "Failed to clone"
    /\ \E i \in Tasks : future[i].state = "finished" /\ future[i].result.error = "None"

\* C7: the working copies of a run are removed on every exit path: when the
\* batch is done, no working copy of a repository it processed is left in
\* servers_dir for a later run to find.
C7_WorkspaceRemoved ==
    bpc = "done" => \A i \in Tasks : repositories[i] \notin servers_dir

\* C8: every acquisition is time-bounded, so the batch is never stuck: it
\* is done, or some worker or the collector can still take a step.
C8_BatchNeverStuck == bpc = "done" \/ ENABLED BatchNext

\* ------------------------------------------------------------------------
\* Scan loop of check_mcp_server/main.py
\* ------------------------------------------------------------------------

\* what main records for a successful scan that found no tools
ZeroToolsRecord(name) == ScanRecord(name, <<>>)

\* the records the caller gets for full_name name
RecordsFor(name) ==
    {scan_results[k] : k \in {j \in 1..Len(scan_results) : scan_results[j].full_name = name}}

\* C6: a repository whose acquisition or scan failed has a record, and that
\* record differs from the record of a successful scan that found no tools.
C6_FailureDistinguishable ==
    \A i \in 1..Len(outcomes) :
        outcomes[i] # "scanned" =>
            /\ RecordsFor(servers[i]) # {}
            /\ ZeroToolsRecord(servers[i]) \notin RecordsFor(servers[i])

\* ------------------------------------------------------------------------
\* analyze_repository
\* ------------------------------------------------------------------------

RECURSIVE ToolsUpTo(_)
\* the tools of files 1..n, in order
ToolsUpTo(n) == IF n = 0 THEN <<>> ELSE ToolsUpTo(n - 1) \o ToolsIn(n)

\* C9: a file that cannot be read, decoded or parsed is skipped, the tools
\* collected so far are kept, and no failure in one file stops the walk:
\* analyze_repository ends only after the last file, with the tools of
\* every file that could be analysed.
C9_FaultIsolated ==
    /\ apc = "walking" => collected = ToolsUpTo(apos - 1)
    /\ apc \in {"returned", "raised"} =>
          /\ apos = Len(afiles) + 1
          /\ collected = ToolsUpTo(Len(afiles))

\* ------------------------------------------------------------------------
\* Accumulation of the verifier
\* ------------------------------------------------------------------------

\* the file at position i is looked at and the check returns true for it
ImportsAt(i) == vfiles[i].supported /\ check_mcp_imports(vfiles[i])
DecoratorsAt(i) == vfiles[i].supported /\ check_mcp_decorators(vfiles[i])

RECURSIVE EvidenceUpTo(_)
\* the paths among 1..n with a true check, each once, in walk order
EvidenceUpTo(n) ==
    IF n = 0 THEN <<>>
    ELSE IF ImportsAt(n) \/ DecoratorsAt(n) THEN Append(EvidenceUpTo(n - 1), n)
    ELSE EvidenceUpTo(n - 1)

IsPrefix(s, t) == Len(s) <= Len(t) /\ \A i \in 1..Len(s) : s[i] = t[i]

C11_Accumulated ==
    /\ has_imports = (\E i \in 1..(vpos - 1) : ImportsAt(i))
    /\ has_decorators = (\E i \in 1..(vpos - 1) : DecoratorsAt(i))
    /\ mcp_files = EvidenceUpTo(vpos - 1)
    /\ \A i, j \in 1..Len(mcp_files) : i # j => mcp_files[i] # mcp_files[j]

C11_NeverReset ==
    /\ has_imports => has_imports'
    /\ has_decorators => has_decorators'
    /\ IsPrefix(mcp_files, mcp_files')

\* C11: at every point of the verifier's walk each flag is the OR of its
\* check over the files visited so far, evidence_files holds exactly the
\* visited files with a true check, once each and in walk order; no step
\* resets a flag or removes or reorders an evidence file.
C11_EvidenceAccumulation == [](vpc # "idle" => C11_Accumulated) /\ [][C11_NeverReset]_vars

\* the walk ended over a tree with a file both checks accept, after it a file
\* only the registration check accepts, and a file neither accepts
C11_Witness ==
    /\ vpc = "done"
    /\ \E i, j, k \in 1..Len(vfiles) :
          /\ i < j
          /\ ImportsAt(i) /\ DecoratorsAt(i)
          /\ ~ImportsAt(j) /\ DecoratorsAt(j)
          /\ ~ImportsAt(k) /\ ~DecoratorsAt(k)
    /\ Len(mcp_files) = 2

\* ------------------------------------------------------------------------
\* analyze_typescript_source
\* ------------------------------------------------------------------------

\* the fields of fs with key k
FieldsNamed(fs, k) == {i \in 1..Len(fs) : fs[i].key = k}

HasTool(n, d) == \E k \in 1..Len(ttools) : ttools[k] = TsToolInfo(n, d, TsOrigin)

\* C12: a registration call whose first argument is a quoted name and whose
\* second argument is an object literal with a quoted description field
\* yields a ToolInfo with that name and that description.
C12_CallNameAndDescription ==
    tpc = "returned" =>
        \A i \in 1..Len(tsource) :
            LET as == tsource[i].args IN
            (/\ tsource[i].stmt = "call" /\ tsource[i].closed
             /\ Len(as) = 2
             /\ as[1].kind = "quoted" /\ as[1].text # ""
             /\ as[2].kind = "object")
            => \A f \in FieldsNamed(as[2].fields, "description") :
                  as[2].fields[f].value.kind = "quoted"
                  => HasTool(as[1].text, Some(as[2].fields[f].value.text))

\* C13: an object literal declared with const whose name field is a bare
\* identifier declared earlier in the file as a string constant yields a
\* tool named by that constant.
C13_NameThroughConstant ==
    tpc = "returned" =>
        \A i, j \in 1..Len(tsource) :
            (/\ i < j
             /\ tsource[i].stmt = "const_literal"
             /\ \A m \in (i + 1)..(j - 1) : tsource[m].stmt # "const_literal"
             /\ tsource[j].stmt = "object_decl" /\ tsource[j].closed)
            => \A f \in FieldsNamed(tsource[j].value.fields, "name") :
                  (/\ tsource[j].value.fields[f].value.kind = "ident"
                   /\ tsource[j].value.fields[f].value.text = tsource[i].identifier)
                  => \E k \in 1..Len(ttools) : ttools[k].name = tsource[i].value.text

\* ------------------------------------------------------------------------
\* MCPToolAnalyzer
\* ------------------------------------------------------------------------

\* the first line of a documentation string, None when there is none
FirstLine(doc) == IF doc.type = "str" THEN PyStr(<<doc.lines[1]>>) ELSE PyNone

\* C14: every function with a tool decorator yields a tool whose name is the
\* function's name, whose origin is the module's relative path and whose
\* description is the first line of the function's documentation string,
\* absent when the function has none.
C14_DecoratorTool ==
    ppc = "visited" =>
        \A i \in 1..Len(pmodule) :
            (/\ pmodule[i].node = "FunctionDef"
             /\ \E j \in 1..Len(pmodule[i].decorator_list) :
                   IsToolDecorator(pmodule[i].decorator_list[j]))
            => \E k \in 1..Len(ptools) :
                  ptools[k] = PyToolInfo(PyStr(<<pmodule[i].name>>),
                                         FirstLine(pmodule[i].docstring), ModulePath)

\* C15: the name of every ToolInfo is a non-empty string.
C15_NameNonEmptyString ==
    \A k \in 1..Len(ptools) :
        ptools[k].name.type = "str" /\ ptools[k].name.lines # <<"">>

\* ------------------------------------------------------------------------
\* Idempotence of the discovery engine
\* ------------------------------------------------------------------------

\* C16: two runs of analyze_repository and deduplicate_tools over the same
\* tree, enumerated in the same order, give the same outcome: the same
\* ToolInfo sequence (names, descriptions, origins, order), or both raise.
C16_Idempotent ==
    /\ Len(eoutputs) = EngineRuns => \A i, j \in 1..EngineRuns : eoutputs[i] = eoutputs[j]
    /\ epc = "done" => Len(eoutputs) = EngineRuns

\* both runs returned a list of two tools found in two files, one of which
\* declares a name twice
C16_Witness ==
    /\ epc = "done"
    /\ ~eoutputs[EngineRuns].raised
    /\ Len(eoutputs[EngineRuns].tools) = 2
    /\ Len(ecollected) > 2
    /\ eoutputs[EngineRuns].tools[1].origin # eoutputs[EngineRuns].tools[2].origin

\* ------------------------------------------------------------------------
\* The tools cache of app.py
\* ------------------------------------------------------------------------

\* call i stores its result in this step
Saves(i) == calls[i].pc = "write" /\ calls'[i].pc = "returned"

C17_KeyedAndBypassed ==
    /\ \A d \in tools_cache :
          \E i \in 1..Len(calls) :
              /\ calls[i].fresh = d.tools
              /\ calls[i].full_name = d.full_name
              /\ d.raw_output = d.tools
    /\ \A i \in 1..Len(calls) :
          calls[i].force_refresh =>
              /\ calls[i].pc \in {"save", "write", "returned"} => calls[i].fresh # 0
              /\ calls[i].pc = "returned" => calls[i].returned = calls[i].fresh

C17_StoresFresh ==
    \A i \in 1..Len(calls) :
        Saves(i) =>
            /\ CacheDoc(calls[i].full_name, calls[i].fresh, calls[i].fresh, utcnow)
                  \in tools_cache'
            /\ \A n \in CacheNames \ {calls[i].full_name} :
                  Matching(tools_cache', n) = Matching(tools_cache, n)

\* C17: the cache is keyed by full_name (a document holds the result of an
\* inspector run made for its own full_name, and a save touches the
\* document of that full_name only); a call with force_refresh returns
\* nothing but the result of an inspector run of its own, and stores that
\* result in a document of its full_name, whatever was there before.
C17_ForceRefreshBypassesCache == []C17_KeyedAndBypassed /\ [][C17_StoresFresh]_vars

\* a forced call returned the result of its own run although the cache held
\* a document of the same full_name that was not older than the TTL
C17_Witness ==
    \E i, j \in 1..Len(calls) :
        /\ i # j
        /\ calls[i].full_name = calls[j].full_name
        /\ calls[j].pc = "returned" /\ calls[j].fresh # 0
        /\ calls[i].force_refresh /\ calls[i].pc = "returned"
        /\ calls[i].fresh > calls[j].fresh
        /\ utcnow = 0
        /\ \E d \in tools_cache : d.tools = calls[i].fresh

\* ------------------------------------------------------------------------
\* Path filters of analyze_repository
\* ------------------------------------------------------------------------

DetectorSuffixes == UNION {LoopPatterns[l] : l \in 1..Len(LoopPatterns)}

\* C18: at every point of the walk, no collected tool has an origin with a
\* part that starts with "." or is a denylist name; every origin has the
\* extension of some detector and is not named *.min.js or *.min.ts.
C18_SkippedPathsContributeNothing ==
    \A k \in 1..Len(wcollected) :
        LET path == wcollected[k].origin IN
        /\ \A i \in 1..Len(path) : path[i][1] # "." /\ path[i] \notin SKIP_DIR_NAMES
        /\ \E suffix \in DetectorSuffixes : EndsWith(NameOf(path), suffix)
        /\ ~EndsWith(NameOf(path), <<".", "m", "i", "n", ".", "j", "s">>)
        /\ ~EndsWith(NameOf(path), <<".", "m", "i", "n", ".", "t", "s">>)

\* the walk returned one tool from a tree that also holds a file under a
\* dot directory or a dot file
C18_Witness ==
    /\ wpc = "returned"
    /\ Len(wtree) = 2
    /\ Len(wcollected) = 1
    /\ \E i \in 1..Len(wtree) :
          /\ \E l \in 1..Len(LoopPatterns) : Globbed(wtree[i], l)
          /\ \E p \in 1..Len(wtree[i]) : wtree[i][p][1] = "."

\* ------------------------------------------------------------------------
\* parse_repo_input
\* ------------------------------------------------------------------------

\* C19: a GitHub URL of owner/repo, with or without a trailing .git or
\* slash, and an input already in owner/repo form, with or without
\* surrounding slashes, are mapped to exactly owner/repo.
C19_ParsesEveryName ==
    ripc = "returned" => repo_name = Some(FullName(repo_input.owner, repo_input.repo))

\* ------------------------------------------------------------------------
\* _extract_balanced_segment: comments
\* ------------------------------------------------------------------------

RECURSIVE Blanks(_)
Blanks(n) == IF n <= 0 THEN <<>> ELSE <<" ">> \o Blanks(n - 1)

\* The text of src from index i on, read with the string state (quote, esc),
\* where every character of a comment outside a string literal (from // up
\* to the next newline, from /* up to and including the next */, or up to
\* the end of the text when the comment is not closed) is a blank.
RECURSIVE CommentBlanked(_, _, _, _)
CommentBlanked(src, i, quote, esc) ==
    IF i >= Len(src) THEN <<>>
    ELSE LET char == CharAt(src, i)
             two == <<char, CharAt(src, i + 1)>>
         IN IF quote # "None"
            THEN <<char>> \o CommentBlanked(src, i + 1,
                     IF ~esc /\ char = quote THEN "None" ELSE quote,
                     ~esc /\ char = Backslash)
            ELSE IF two = <<"/", "/">>
            THEN LET newline == Find(src, <<"\n">>, i + 2)
                     end == IF newline = -1 THEN Len(src) ELSE newline
                 IN Blanks(end - i) \o CommentBlanked(src, end, "None", FALSE)
            ELSE IF two = <<"/", "*">>
            THEN LET close == Find(src, <<"*", "/">>, i + 2)
                     end == IF close = -1 THEN Len(src) ELSE close + 2
                 IN Blanks(end - i) \o CommentBlanked(src, end, "None", FALSE)
            ELSE <<char>> \o CommentBlanked(src, i + 1,
                     IF char \in Quotes THEN char ELSE "None", FALSE)

\* The index of the character that closes the bracket opened before index i,
\* in a text without comments: d is the nesting depth and (quote, esc) the
\* string state at i; -1 when the text ends first.
RECURSIVE ClosingIndex(_, _, _, _, _, _, _)
ClosingIndex(src, i, d, quote, esc, o, c) ==
    IF i >= Len(src) THEN -1
    ELSE LET char == CharAt(src, i)
         IN IF quote # "None"
            THEN ClosingIndex(src, i + 1, d,
                     IF ~esc /\ char = quote THEN "None" ELSE quote,
                     ~esc /\ char = Backslash, o, c)
            ELSE IF char \in Quotes THEN ClosingIndex(src, i + 1, d, char, FALSE, o, c)
            ELSE IF char = o THEN ClosingIndex(src, i + 1, d + 1, "None", FALSE, o, c)
            ELSE IF char = c
            THEN (IF d = 1 THEN i ELSE ClosingIndex(src, i + 1, d - 1, "None", FALSE, o, c))
            ELSE ClosingIndex(src, i + 1, d, "None", FALSE, o, c)

\* the source of the call with the comment text after start_index blanked
SourceWithoutComments ==
    SubSeq(source, 1, start_index + 1) \o CommentBlanked(source, start_index + 1, "None", FALSE)

\* the call was made at an opening character
StartsAtOpen == start_index < Len(source) /\ CharAt(source, start_index) = open_char

\* the result is the one of the same call on the text without its comments
C20_SameClosingCharacter ==
    (xpc = "done" /\ StartsAtOpen) =>
        LET close == ClosingIndex(SourceWithoutComments, start_index + 1, 1, "None", FALSE,
                                  open_char, close_char)
        IN IF close = -1 THEN xresult = ResultNone
           ELSE xresult = ResultSegment(Slice(source, start_index + 1, close))

\* a step taken at a // or a /* outside a string literal leaves the depth
\* and the string state alone and, when the scan goes on, puts the index
\* after the next newline, resp. after the next */
C20_CommentStep ==
    (xpc = "scan" /\ index + 1 < Len(source) /\ in_string = "None" /\ CharAt(source, index) = "/"
        /\ CharAt(source, index + 1) \in {"/", "*"}) =>
        /\ depth' = depth
        /\ in_string' = "None"
        /\ xpc' = "scan" =>
            IF CharAt(source, index + 1) = "/"
            THEN index' = Find(source, <<"\n">>, index + 2) + 1
            ELSE index' = Find(source, <<"*", "/">>, index + 2) + 2

\* C20: outside string literals a // comment is skipped up to the next
\* newline and a /* comment up to the next */; bracket and quote characters
\* inside a comment change neither the depth nor the string state, and the
\* segment ends at the closing character it would end at if the comment text
\* were blank.
C20_CommentsSkipped == []C20_SameClosingCharacter /\ [][C20_CommentStep]_vars

\* C20 witness: a segment was returned from a source in which a comment
\* holds the closing character and a comment holds a quote character.
C20_Witness ==
    /\ xpc = "done"
    /\ xresult.kind = "segment"
    /\ \E k \in 1..Len(source) : source[k] = close_char /\ SourceWithoutComments[k] = " "
    /\ \E k \in 1..Len(source) : source[k] \in Quotes /\ SourceWithoutComments[k] = " "

\* ------------------------------------------------------------------------
\* _split_top_level
\* ------------------------------------------------------------------------

\* the pieces grouped at the pieces that are a separator
RECURSIVE GroupedAtSeparators(_, _)
GroupedAtSeparators(ps, cur) ==
    IF ps = <<>> THEN <<cur>>
    ELSE IF Head(ps) = <<Separator>> THEN <<cur>> \o GroupedAtSeparators(Tail(ps), <<>>)
    ELSE GroupedAtSeparators(Tail(ps), cur \o Head(ps))

\* the parts of a text made of pieces when only the separators that are a
\* piece of their own split it: trimmed, the empty ones dropped
TopLevelParts(ps) ==
    LET groups == GroupedAtSeparators(ps, <<>>)
    IN NonEmptyParts([i \in 1..Len(groups) |-> Strip(groups[i])])

HasComment(ps) == \E i \in 1..Len(ps) : ps[i] \in CommentPieces

\* C21: the text is split at a separator only when the parenthesis, brace
\* and bracket depths are zero and the scanner is outside a string literal: a
\* separator nested in a bracket pair or in a string, also after an escaped
\* quote, produces no split (texts without comments).
C21_SplitsAtTopLevelOnly ==
    (splitpc = "done" /\ ~HasComment(pieces)) => split_parts = TopLevelParts(pieces)

\* C21 witness: a text without comments was split in two parts, and it holds
\* a separator nested in brackets and a separator in a string after an
\* escaped quote.
C21_Witness ==
    /\ splitpc = "done"
    /\ ~HasComment(pieces)
    /\ Len(split_parts) = 2
    /\ \E i \in 1..Len(pieces) : pieces[i] = <<"{", "x", Separator, "}">>
    /\ \E i \in 1..Len(pieces) :
        pieces[i] = <<DoubleQuote, Backslash, DoubleQuote, Separator, DoubleQuote>>

\* C22: a separator, bracket or quote character inside a line comment or a
\* block comment neither splits the text nor changes the depth or the string
\* state: the parts are the ones the separators outside comments give.
C22_CommentsDoNotSplit ==
    (splitpc = "done" /\ HasComment(pieces)) => split_parts = TopLevelParts(pieces)

\* ------------------------------------------------------------------------
\* MCPToolAnalyzer: the decorator rule
\* ------------------------------------------------------------------------

\* the final name of the decorator is tool or register_tool, in any case
NamesTool(d) == PyLower(d.id) \in {"tool", "register_tool"}

\* the function definition at position i of the module
IsFunctionDef(i) == pmodule[i].node = "FunctionDef"

\* the tools the decorator rule emitted: the ones named after the function
DecoratorRuleTools == {k \in 1..Len(ptools) : ptools[k].name = PyStr(<<"search">>)}

\* C23: a function definition is emitted as a tool by the decorator rule
\* exactly when its decorator list holds a name, an attribute or a call of
\* one of those whose final name is tool or register_tool, compared
\* case-insensitively (modules of one node).
C23_DecoratorRule ==
    (ppc = "visited" /\ Len(pmodule) = 1 /\ IsFunctionDef(1)) =>
        (DecoratorRuleTools # {} <=>
            \E i \in 1..Len(pmodule[1].decorator_list) : NamesTool(pmodule[1].decorator_list[i]))

\* ------------------------------------------------------------------------
\* _extract_tool_from_registry_call
\* ------------------------------------------------------------------------

\* the ToolInfo extracted from the constructor nested in keyword kw: a tuple
\* of no or one ToolInfo
NestedInfo(kw) ==
    IF kw.arg \in {"tool", "tool_obj"} /\ kw.value.node = "Call"
       /\ PyLower(kw.value.call.id) = "tool"
    THEN ExtractToolFromConstructor(kw.value.call, ModulePath)
    ELSE <<>>

\* the keywords of the call with a nested constructor that gives a name
Nested == {i \in 1..Len(reg_call.keywords) : NestedInfo(reg_call.keywords[i]) # <<>>}

\* C24: when the tool or tool_obj keyword of a registration call is a Tool
\* constructor call from which a name can be extracted, the ToolInfo of the
\* registration call is the one of the nested constructor (the first one in
\* keyword order), whatever the other keywords are and wherever they stand.
C24_NestedConstructorWins ==
    (regpc = "returned" /\ Nested # {}) =>
        reg_info = NestedInfo(reg_call.keywords[MinOf(Nested)])

\* C24 witness: the call returned the ToolInfo of a nested constructor that
\* stood after a name keyword and a description keyword of the outer call.
C24_Witness ==
    /\ regpc = "returned"
    /\ Nested # {}
    /\ \E i, j \in 1..Len(reg_call.keywords) :
        /\ i < MinOf(Nested) /\ j < MinOf(Nested)
        /\ reg_call.keywords[i] = Keyword("name", RegConst(PyStr(<<"outer">>)))
        /\ reg_call.keywords[j].arg = "description"
    /\ reg_info = <<PyToolInfo(PyStr(<<"inner">>), PyNone, ModulePath)>>

\* ------------------------------------------------------------------------
\* analyze_typescript_source: candidates without a balanced segment
\* ------------------------------------------------------------------------

\* the tools of the object declarations of a source, in order
RECURSIVE DeclTools(_)
DeclTools(src) ==
    IF src = <<>> THEN <<>>
    ELSE LET info == ParseToolObject(Head(src).value.fields, TsOrigin)
         IN (IF Head(src).stmt = "object_decl" /\ info # NoneS THEN info ELSE <<>>)
            \o DeclTools(Tail(src))

\* the tools of the calls of a source, in order
RECURSIVE CallsTools(_)
CallsTools(src) ==
    IF src = <<>> THEN <<>>
    ELSE (IF Head(src).stmt = "call" THEN CallTools(Head(src).args, TsOrigin) ELSE <<>>)
         \o CallsTools(Tail(src))

\* the candidates of the source whose bracket is closed
ClosedStatements == SelectSeq(tsource, LAMBDA st : st.closed)

\* the candidate under examination has no balanced segment
AtTruncated ==
    /\ tpc \in {"objects", "calls"}
    /\ tpos <= Len(tsource)
    /\ ~tsource[tpos].closed

\* the result is what the candidates with a balanced segment give
C25_TruncatedContributeNothing ==
    tpc = "returned" => ttools = DeclTools(ClosedStatements) \o CallsTools(ClosedStatements)

\* the step at a candidate without a segment keeps the tools collected and
\* goes on to the next candidate
C25_TruncatedStep == AtTruncated => (ttools' = ttools /\ tpos' = tpos + 1 /\ tpc' = tpc)

\* C25: when the balanced extractor returns None for a candidate match, the
\* candidate contributes no tool, the tools collected so far are kept, and
\* every later candidate of the file is still examined.
C25_SiblingsContinue == []C25_TruncatedContributeNothing /\ [][C25_TruncatedStep]_vars

\* C25 witness: the file was analysed, its first candidate had no balanced
\* segment, and a later candidate gave a tool.
C25_Witness ==
    /\ tpc = "returned"
    /\ Len(tsource) = 2
    /\ ~tsource[1].closed
    /\ tsource[2].closed
    /\ ttools # <<>>

\* ------------------------------------------------------------------------
\* _extract_balanced_segment: termination
\* ------------------------------------------------------------------------

\* while the scan runs the index is after the opening character and at most
\* len(source)
C26_IndexInRange == xpc = "scan" => (start_index < index /\ index <= Len(source))

\* every iteration of the loop that does not return moves the index forward
C26_IndexForward == (xpc = "scan" /\ xpc' = "scan") => index' > index

\* C26: the scan terminates on every source: each iteration moves the index
\* strictly forward, also past a comment or through a string, and the index
\* never passes len(source), so the call ends with a segment or with None
\* after at most len(source) iterations.
C26_Terminates ==
    /\ []C26_IndexInRange
    /\ [][C26_IndexForward]_vars
    /\ <>(xpc = "done" /\ xresult.kind \in {"segment", "None"})

\* C26 witness: a call ended after the scan had stepped through a string,
\* a line comment and a block comment.
C26_Witness ==
    /\ xpc = "done"
    /\ xresult.kind = "segment"
    /\ \E i \in 1..(Len(xresult.text) - 1) : SubSeq(xresult.text, i, i + 1) = <<"/", "/">>
    /\ \E i \in 1..(Len(xresult.text) - 1) : SubSeq(xresult.text, i, i + 1) = <<"/", "*">>

\* ------------------------------------------------------------------------
\* filter_mcp_servers: runs in append mode
\* ------------------------------------------------------------------------

\* C27: after any sequence of runs in append mode, CSV runs and --repo runs
\* in any order, the output file holds at most one record per full_name.
C27_OneRecordPerFullName ==
    \A i, j \in 1..Len(output_json) :
        i # j => output_json[i].full_name # output_json[j].full_name

\* ------------------------------------------------------------------------
\* fetch_tools_for_repo: failure of the inspector, concurrent calls, TTL
\* ------------------------------------------------------------------------

\* call i takes the step
Steps(i) == calls'[i] # calls[i]

\* a call that raised raised one of the inspector's errors, returned nothing
\* and stored nothing
C28_RaisedStoredNothing ==
    \A i \in 1..Len(calls) :
        calls[i].pc = "raised" =>
            /\ calls[i].error \in InspectorErrors
            /\ calls[i].returned = 0
            /\ \A d \in tools_cache : d.tools # calls[i].fresh

\* no step of a call up to and including the failure of the inspector
\* changes the collection
C28_FailureStep ==
    \A i \in 1..Len(calls) :
        (Steps(i) /\ calls'[i].pc \in {"inspect", "raised"}) => tools_cache' = tools_cache

\* C28: when the inspector run fails, fetch_tools_for_repo raises and leaves
\* the cache entry of the repository, and of every other repository, as it
\* was.
C28_FailureLeavesCache == []C28_RaisedStoredNothing /\ [][C28_FailureStep]_vars

\* C28 witness: a call raised while the collection held a document of its
\* repository.
C28_Witness ==
    \E i \in 1..Len(calls) :
        /\ calls[i].pc = "raised"
        /\ calls[i].error = "TimeoutExpired"
        /\ Matching(tools_cache, calls[i].full_name) # {}

\* C29: under any interleaving of concurrent calls for one repository the
\* cache holds at most one entry for its full_name, and the tools and the
\* raw_output of an entry come from one and the same inspector run.
C29_OneEntryPerFullName ==
    /\ \A n \in CacheNames : Cardinality(Matching(tools_cache, n)) <= 1
    /\ \A d \in tools_cache : d.raw_output = d.tools

\* a call returns from the cache only a document that is not older than the
\* TTL, and then no inspector run is made and nothing is written
C30_HitWithinTtl ==
    \A i \in 1..Len(calls) :
        (calls[i].pc = "called" /\ calls'[i].pc = "returned") =>
            /\ ~calls[i].force_refresh
            /\ \E d \in Matching(tools_cache, calls[i].full_name) :
                  /\ utcnow - d.updated_at <= TOOLS_CACHE_TTL
                  /\ calls'[i].returned = d.tools
            /\ calls'[i].fresh = 0
            /\ runs' = runs
            /\ tools_cache' = tools_cache

\* a call that finds only documents older than the TTL goes on to the
\* inspector
C30_MissBeyondTtl ==
    \A i \in 1..Len(calls) :
        (/\ calls[i].pc = "called"
         /\ Matching(tools_cache, calls[i].full_name) # {}
         /\ \A d \in Matching(tools_cache, calls[i].full_name) :
               utcnow - d.updated_at > TOOLS_CACHE_TTL
         /\ Steps(i))
        => calls'[i].pc = "inspect"

\* the save of a call whose query found the entry replaces it with the
\* result of its run, stamped with the time of the save
C30_Replaced ==
    \A i \in 1..Len(calls) :
        (Saves(i) /\ calls[i].found) =>
            \E d \in Matching(tools_cache, calls[i].full_name) :
                tools_cache' = (tools_cache \ {d})
                    \cup {CacheDoc(calls[i].full_name, calls[i].fresh, calls[i].fresh, utcnow)}

\* an entry of a repository never disappears, so the save after a miss on an
\* old entry finds it
C30_EntryStays ==
    /\ \A n \in CacheNames : Matching(tools_cache, n) # {} => Matching(tools_cache', n) # {}
    /\ \A i \in 1..Len(calls) :
          (calls[i].pc = "save" /\ calls'[i].pc = "write") =>
              calls'[i].found = (Matching(tools_cache, calls[i].full_name) # {})

\* C30: an entry is returned by a non-forced call only while its age is at
\* most the TTL of 6 hours, and then the inspector is not run; an entry older
\* than the TTL is a miss, the inspector is run and the entry is replaced
\* with a fresh timestamp.
C30_TtlRespected ==
    /\ [][C30_HitWithinTtl]_vars
    /\ [][C30_MissBeyondTtl]_vars
    /\ [][C30_Replaced]_vars
    /\ [][C30_EntryStays]_vars

\* C30 witness: a non-forced call ran the inspector after the TTL of the
\* entry of an earlier call had passed, and its save replaced that entry.
C30_Witness ==
    \E i, j \in 1..Len(calls) :
        /\ i # j
        /\ calls[i].full_name = calls[j].full_name
        /\ ~calls[i].force_refresh
        /\ calls[i].pc = "returned" /\ calls[j].pc = "returned"
        /\ calls[j].fresh # 0 /\ calls[i].fresh > calls[j].fresh
        /\ calls[i].found
        /\ tools_cache = {CacheDoc(calls[i].full_name, calls[i].fresh, calls[i].fresh, utcnow)}
        /\ utcnow > TOOLS_CACHE_TTL

====
